---- MODULE Spec2Model ----
(***************************************************************************)
(* A model of the news_hivee processing pipeline: the LLM-backed agents    *)
(* (parser, tagger, recommender, renderer), their caches and fallbacks,    *)
(* and the orchestrator that chains them.                                  *)
(*                                                                         *)
(* Python strings are modelled as sequences of one-character strings, so   *)
(* that trimming, lower-casing, splitting and substring tests are computed *)
(* as the code computes them.  A code point outside printable ASCII is     *)
(* written "uXXXX" (its hexadecimal number) and counts as one character.   *)
(***************************************************************************)
EXTENDS Integers, Sequences, FiniteSets, TLC

VARIABLES
    \* ---- ParserAgent (src/agents/parser_agent.py)
    cache,            \* self.cache: url -> ParseResult, NoEntry when absent
    total_count,      \* self.total_count
    success_count,    \* self.success_count
    fallback_count,   \* self.fallback_count
    p_pc,             \* per caller: where its parse_with_retry coroutine is
    p_text,           \* per caller: the text argument
    p_url,            \* per caller: the url argument
    p_attempt,        \* per caller: the local variable attempt
    p_ret,            \* per caller: what the call returned (or raised)
    p_llm_calls,      \* per caller: LLM calls made by the call in progress
    p_sleeps,         \* per caller: backoff sleeps taken by the call in progress
    p_path,           \* per caller: the path on which the call ended
    p_seen,           \* per caller: the cache entry for its url when the call began
    p_prior,          \* per caller: the last result returned for its url before the call began
    last_returned,    \* per url: the result the most recently completed call returned
    \* ---- users table (src/database/db.py) and PersonalizationAgent
    \*      (src/agents/recommend_agent.py)
    db_users,                  \* users table: telegram_id -> row, NoRow when absent
    user_interests,            \* self.user_interests: user -> tag -> weight, when loaded
    interests_loaded,          \* the users that are keys of self.user_interests
    total_recommendations,     \* self.metrics["total_recommendations"]
    r_pc,             \* per caller: where its is_relevant coroutine is
    r_user,           \* per caller: the user_id argument
    r_tags,           \* per caller: the tags argument
    r_branch,         \* per caller: the branch of is_relevant the call took
    r_profile,        \* per caller: the local variable profile
    r_ret,            \* per caller: what the call returned
    r_llm_calls,      \* per caller: LLM calls made by the call in progress
    r_outcome,        \* per caller: what the LLM client did with the request of the call
    r_blocked,        \* per caller: a content tag was in blocked_tags when the call began
    r_sentinel,       \* per caller: the user had the sentinel and no blocked tag when the call began
    r_reinforced,     \* per caller: the call has run _update_user_interests
    r_content_score,  \* per caller: the local variable content_score, 0 until computed
    liked_tags,       \* history: per user, the tags liked and not disliked since
    \* ---- cached_news table (src/services/news_cache.py), process_news_for_user
    \*      (src/services/news_pipeline.py) and cmd_digest (src/bot/handlers/digest.py)
    cached_news,      \* cached_news table: url -> row, NoCached when absent
    processed,        \* the (user, url, style) for which a process_news_for_user call has ended
    dg_pc,            \* per handler: where its cmd_digest coroutine is
    dg_user,          \* per handler: message.from_user.id
    dg_style,         \* per handler: the local variable style
    dg_list,          \* per handler: the local variable raw_news_list
    dg_i,             \* per handler: the index of the next article of the loop
    dg_sent_any,      \* per handler: the local variable sent_any
    dg_answers,       \* per handler: the answers sent to the user so far
    pl_exc,           \* per handler: what its last process_news_for_user call raised
    pl_hit,           \* per handler: that call found its url in cached_news
    pl_stages,        \* per handler: the agents whose run that call has entered
    pl_again,         \* per handler: an earlier call for the same (user, url, style) had ended
    \* ---- ParserAgent._call_llm_parser, from the response on
    ex_response,      \* the response of call_llm
    ex_result,        \* what _call_llm_parser returned for it
    \* ---- AdaptiveSummaryAgent.generate_adaptive_summary
    su_pc,            \* idle; selected: awaits the generation call; verifying: awaits the fact check; done
    su_text,          \* the text argument of the call
    su_format,        \* the output_format argument of the call
    su_response,      \* the local variable response, once the generation call is back
    su_is_valid,      \* the local variable is_valid
    su_calls,         \* LLM calls of the call in progress, by purpose
    su_returned,      \* what the call returned
    su_context,       \* the SummaryContext of the call, with the style asked for
    su_selected,      \* the style _select_style_by_context gave
    total_summaries,  \* metrics[total_summaries]
    style_distribution, \* metrics[style_distribution]
    \* ---- SemanticTaggingAgent.generate_tags_with_enhancements
    tg_pc,            \* idle, asked (call_llm is awaited) or done
    tg_summary,       \* the summary of the call
    tg_user_tags,     \* the user_tags of the call (None is the empty list)
    tg_path,          \* the branch the call took
    tg_normalized,    \* normalized_tags of the call
    tg_disambiguated, \* disambiguated_tags of the call
    tg_result,        \* the category and the tags the call returns
    llm_call_cache,   \* llm_call_cache, keyed by the summary and the user_tags
    tag_usage_frequency, \* tag_usage_frequency
    tag_metrics,      \* metrics
    \* ---- MultimodalDeliveryAgent.render_news_with_enhancements and run
    rd_pc,            \* idle or rendered
    rd_format,        \* the output format of the call
    rd_assembled,     \* content_with_tone with the buttons: the assembled message
    rd_formatted,     \* formatted_content
    rd_messages,      \* final_messages, the chunks
    rd_returned,      \* what run returns
    render_metrics,   \* metrics
    \* ---- tag-agent instances sharing the taxonomy file (tags_agent.py)
    tx_file,          \* data/tags_taxonomy.json: NoFile, or the taxonomy last dumped into it
    tx_started,       \* per instance: whether __init__ has run
    tx_taxonomy,      \* per instance: self.taxonomy, category -> list of tags
    tx_frequency,     \* per instance: self.tag_usage_frequency
    tx_cache,         \* per instance: the keys of self.llm_call_cache
    tx_metrics,       \* per instance: total_taggings and taxonomy_expansions
    tx_pc,            \* per instance: "idle" or "asked" (awaiting call_llm)
    tx_request,       \* per instance: the request being tagged, 0 when idle
    tx_updates        \* per instance: taxonomy_updates of the last result

parserVars == <<cache, total_count, success_count, fallback_count, p_pc, p_text,
                p_url, p_attempt, p_ret, p_llm_calls, p_sleeps, p_path, p_seen,
                p_prior, last_returned>>

recommendVars == <<db_users, user_interests, interests_loaded, total_recommendations, r_pc, r_user, r_tags, r_branch,
                   r_profile, r_ret, r_llm_calls, r_outcome, r_blocked, r_sentinel,
                   r_reinforced, r_content_score, liked_tags>>

pipelineVars == <<cached_news, processed, dg_pc, dg_user, dg_style, dg_list, dg_i,
                  dg_sent_any, dg_answers, pl_exc, pl_hit, pl_stages, pl_again>>

extractVars == <<ex_response, ex_result>>

summarizeVars == <<su_pc, su_context, su_selected, total_summaries, style_distribution,
                   su_text, su_format, su_response, su_is_valid, su_calls, su_returned>>

tagsVars == <<tg_pc, tg_summary, tg_user_tags, tg_path, tg_normalized, tg_disambiguated, tg_result, llm_call_cache, tag_usage_frequency, tag_metrics>>

renderVars == <<rd_pc, rd_format, rd_assembled, rd_formatted, rd_messages, rd_returned, render_metrics>>

taxonomyVars == <<tx_file, tx_started, tx_taxonomy, tx_frequency, tx_cache, tx_metrics, tx_pc, tx_request, tx_updates>>

vars == <<parserVars, recommendVars, pipelineVars, extractVars, summarizeVars, tagsVars, renderVars, taxonomyVars>>

\* what the steps of one component leave alone
nonParserVars == <<recommendVars, pipelineVars, extractVars, summarizeVars, tagsVars, renderVars, taxonomyVars>>

nonRecommendVars == <<parserVars, pipelineVars, extractVars, summarizeVars, tagsVars, renderVars, taxonomyVars>>

nonPipelineVars == <<parserVars, recommendVars, extractVars, summarizeVars, tagsVars, renderVars, taxonomyVars>>

nonExtractVars == <<parserVars, recommendVars, pipelineVars, summarizeVars, tagsVars, renderVars, taxonomyVars>>

nonSummarizeVars == <<parserVars, recommendVars, pipelineVars, extractVars, tagsVars, renderVars, taxonomyVars>>

nonTagsVars == <<parserVars, recommendVars, pipelineVars, extractVars, summarizeVars, renderVars, taxonomyVars>>

nonRenderVars == <<parserVars, recommendVars, pipelineVars, extractVars, summarizeVars, tagsVars, taxonomyVars>>

nonTaxonomyVars == <<parserVars, recommendVars, pipelineVars, extractVars, summarizeVars, tagsVars, renderVars>>

----------------------------------------------------------------------------
(* Python str operations on sequences of characters.                       *)

SetMin(S) == CHOOSE x \in S : \A y \in S : x <= y

SetMax(S) == 0 - SetMin({0 - x : x \in S})

ASCII_UPPER == <<"A","B","C","D","E","F","G","H","I","J","K","L","M","N","O","P","Q","R","S","T","U","V","W","X","Y","Z">>

ASCII_LOWER == <<"a","b","c","d","e","f","g","h","i","j","k","l","m","n","o","p","q","r","s","t","u","v","w","x","y","z">>

CYR_UPPER == <<"u0410","u0411","u0412","u0413","u0414","u0415","u0416","u0417","u0418","u0419","u041A","u041B","u041C","u041D","u041E","u041F","u0420","u0421","u0422","u0423","u0424","u0425","u0426","u0427","u0428","u0429","u042A","u042B","u042C","u042D","u042E","u042F","u0401">>

CYR_LOWER == <<"u0430","u0431","u0432","u0433","u0434","u0435","u0436","u0437","u0438","u0439","u043A","u043B","u043C","u043D","u043E","u043F","u0440","u0441","u0442","u0443","u0444","u0445","u0446","u0447","u0448","u0449","u044A","u044B","u044C","u044D","u044E","u044F","u0451">>

UPPER_CHARS == ASCII_UPPER \o CYR_UPPER

LOWER_CHARS == ASCII_LOWER \o CYR_LOWER

\* str.lower() on one character
LowerChar(c) ==
    IF \E i \in 1..Len(UPPER_CHARS) : UPPER_CHARS[i] = c
    THEN LOWER_CHARS[CHOOSE i \in 1..Len(UPPER_CHARS) : UPPER_CHARS[i] = c]
    ELSE c

\* str.lower()
Lower(s) == [i \in 1..Len(s) |-> LowerChar(s[i])]

\* the characters str.strip() and str.isspace() treat as whitespace
IsSpace(c) == c \in {" ", "\n", "\t", "\r"}

\* str.strip()
Strip(s) ==
    LET idx == {i \in 1..Len(s) : ~IsSpace(s[i])}
    IN  IF idx = {} THEN <<>> ELSE SubSeq(s, SetMin(idx), SetMax(idx))

\* t occurs in s at the (1-based) position i
StartsAt(s, t, i) ==
    /\ i >= 1
    /\ i + Len(t) - 1 <= Len(s)
    /\ \A k \in 1..Len(t) : s[i + k - 1] = t[k]

\* str.startswith(t)
StartsWith(s, t) == StartsAt(s, t, 1)

\* t in s
Contains(s, t) == \E i \in 1..(Len(s) - Len(t) + 1) : StartsAt(s, t, i)

\* s.find(t): the 0-based index of the first occurrence, -1 when there is none
Find(s, t) ==
    LET idx == {i \in 1..(Len(s) - Len(t) + 1) : StartsAt(s, t, i)}
    IN  IF idx = {} THEN -1 ELSE SetMin(idx) - 1

\* s[:n]
Take(s, n) == SubSeq(s, 1, IF n < Len(s) THEN n ELSE Len(s))

\* s[n:]
Drop(s, n) == SubSeq(s, n + 1, Len(s))

\* s.split(sep), sep not empty
RECURSIVE Split(_, _)
Split(s, sep) ==
    LET i == Find(s, sep)
    IN  IF i = -1 THEN <<s>>
        ELSE <<Take(s, i)>> \o Split(Drop(s, i + Len(sep)), sep)

\* sep.join(parts)
RECURSIVE Join(_, _)
Join(parts, sep) ==
    IF parts = <<>> THEN <<>>
    ELSE IF Len(parts) = 1 THEN parts[1]
    ELSE parts[1] \o sep \o Join(Tail(parts), sep)

\* the concatenation of a sequence of sequences
RECURSIVE Flatten(_)
Flatten(seqs) == IF seqs = <<>> THEN <<>> ELSE seqs[1] \o Flatten(Tail(seqs))

NonEmpty(s) == s # <<>>

----------------------------------------------------------------------------
(* ParserAgent: src/agents/parser_agent.py                                 *)

\* coroutines that may be inside the module-level agents at the same time
Callers == {"c1", "c2"}

\* article URLs and their urlparse(url).netloc
URLS == {"https://a.example/1", "https://b.example/2"}

Netloc(url) == IF url = "https://a.example/1" THEN "a.example" ELSE "b.example"

NoEntry == [none |-> TRUE]

NoText == <<>>

\* ParserAgent.__init__: self.spam_words
spam_words == << <<"c","l","i","c","k"," ","h","e","r","e">>, <<"b","u","y"," ","n","o","w">>, <<"l","i","m","i","t","e","d"," ","t","i","m","e">>, <<"a","c","t"," ","n","o","w">>,
                 <<"f","r","e","e"," ","m","o","n","e","y">>, <<"g","e","t"," ","r","i","c","h">>, <<"m","i","r","a","c","l","e"," ","c","u","r","e">>, <<"w","o","r","k"," ","f","r","o","m"," ","h","o","m","e">> >>

\* ParserAgent.__init__: self.nsfw_words
nsfw_words == << <<"p","o","r","n">>, <<"s","e","x">>, <<"n","u","d","e">>, <<"a","d","u","l","t">>, <<"e","r","o","t","i","c">>, <<"e","x","p","l","i","c","i","t">>,
                 <<"i","n","t","i","m","a","t","e">>, <<"s","e","n","s","u","a","l">>, <<"s","e","x","u","a","l">> >>

\* parse_with_retry: the default of max_retries
max_retries == 3

\* the texts handed to the parser
TEXT_EMPTY == <<>>

TEXT_BLANK == <<" ","\n">>

TEXT_NEWS == <<"R","a","t","e","s"," ","r","i","s","e"," ","a","g","a","i","n"," ","t","o","d","a","y","."," ","M","a","r","k","e","t","s"," ","f","a","l","l">>

TEXT_SPAM == <<"O","k","."," ","B","u","y"," ","N","o","w"," ","a","n","d"," ","s","a","v","e"," ","b","i","g","."," ","M","o","r","e">>

TEXT_HTML == <<"<","p",">","A","c","t"," ","n","o","w","<","/","p",">">>

Texts == {TEXT_EMPTY, TEXT_BLANK, TEXT_NEWS, TEXT_SPAM, TEXT_HTML}

\* ParserAgent._detect_content_type
DetectContentType(content) ==
    LET content_lower == Lower(content)
    IN  IF Contains(content_lower, <<"<","r","s","s">>) \/ Contains(content_lower, <<"<","f","e","e","d">>)
        THEN "rss"
        ELSE IF \/ Contains(content_lower, <<"<","h","t","m","l">>)
                \/ Contains(content_lower, <<"<","a","r","t","i","c","l","e">>)
                \/ Contains(content_lower, <<"<","p",">">>)
        THEN "html"
        ELSE "plain_text"

\* BeautifulSoup(...).get_text() on markup without script/style/nav/footer/header
\* elements: the text outside the tags
RECURSIVE GetText(_)
GetText(html) ==
    LET open == Find(html, <<"<">>)
    IN  IF open = -1 THEN html
        ELSE LET rest == Drop(html, open)
                 close == Find(rest, <<">">>)
             IN  IF close = -1 THEN Take(html, open)
                 ELSE Take(html, open) \o GetText(Drop(rest, close + 1))

\* ParserAgent._clean_html
CleanHtml(html_content) ==
    LET text == GetText(html_content)
        raw_lines == Split(text, <<"\n">>)
        lines == [i \in 1..Len(raw_lines) |-> Strip(raw_lines[i])]
        phrases == [i \in 1..Len(lines) |-> Split(lines[i], <<" "," ">>)]
        all_phrases == Flatten(phrases)
        chunks == [i \in 1..Len(all_phrases) |-> Strip(all_phrases[i])]
    IN  Join(SelectSeq(chunks, NonEmpty), <<" ">>)

UNTITLED == <<"U","n","t","i","t","l","e","d">>

\* the prefixes that mark a sentence as an explanation rather than a title
EXPLANATION_PREFIXES == { <<"g","o","o","d">>, <<"o","k">>, <<"w","e","l","l">>, <<"i">>, <<"h","e","r","e">> }

\* ParseResult, with the fields the parser's paths set differently
ParseResultOf(title, text, url, source, success, error_reason) ==
    [title |-> title, text |-> text, url |-> url, published_at |-> "unknown",
     source |-> source, success |-> success, error_reason |-> error_reason]

\* the one element of a singleton set; { e(x) : x \in {v} } binds x to the value
\* of v, so a local of the code is computed once however often it is read
TheOnly(S) == CHOOSE x \in S : TRUE

\* _rule_based_parse, the text the title is cut from: clean_text before its
\* blank test
RuleCleanText(content) ==
    IF DetectContentType(content) = "html" THEN CleanHtml(content) ELSE Strip(content)

\* _rule_based_parse: not clean_text or clean_text.isspace()
RuleBlank(clean_text) ==
    clean_text = <<>> \/ \A i \in 1..Len(clean_text) : IsSpace(clean_text[i])

\* _rule_based_parse: [s.strip() for s in clean_text.split('.') if s.strip()]
RuleSentences(clean_text) ==
    TheOnly({ SelectSeq([i \in 1..Len(pieces) |-> Strip(pieces[i])], NonEmpty)
              : pieces \in {Split(clean_text, <<".">>)} })

\* _rule_based_parse: the title taken from the sentences, before the length check
RuleFirstTitle(sentences) ==
    LET first == sentences[1]
    IN  IF sentences = <<>> THEN UNTITLED
        ELSE IF \/ Len(first) < 10
                \/ \E p \in EXPLANATION_PREFIXES : StartsWith(Lower(first), p)
             THEN IF Len(sentences) > 1 /\ Len(sentences[2]) >= Len(first)
                  THEN sentences[2] ELSE first
             ELSE first

\* _rule_based_parse: "Ensure title is reasonable"
RuleTitle(clean_text, title) ==
    IF title = <<>> \/ Len(Strip(title)) < 3
    THEN TheOnly({ IF Len(t) < 3 THEN UNTITLED ELSE t
                   : t \in {Strip(Take(clean_text, 50))} })
    ELSE title

\* _rule_based_parse: the text body, everything after the title
RuleBody(clean_text, title) ==
    LET title_end_pos == IF title # UNTITLED THEN Find(clean_text, title) ELSE -1
    IN  IF title_end_pos # -1
        THEN Strip(Drop(clean_text, title_end_pos + Len(title)))
        ELSE Strip(Drop(clean_text, Len(title)))

\* _rule_based_parse: urlparse(url).netloc or url
RuleSource(url) == IF Netloc(url) # "" THEN Netloc(url) ELSE url

\* _rule_based_parse on a clean_text that is not blank
RuleParseText(clean_text, url) ==
    TheOnly({ ParseResultOf(title, RuleBody(clean_text, title), url, RuleSource(url),
                            TRUE, "None")
              : title \in { TheOnly({ RuleTitle(clean_text, first_title)
                                      : first_title \in
                                          {RuleFirstTitle(RuleSentences(clean_text))} }) } })

\* ParserAgent._rule_based_parse
RuleBasedParse(content, url) ==
    TheOnly({ IF RuleBlank(clean_text)
              THEN ParseResultOf(UNTITLED, <<>>, url, RuleSource(url), TRUE, "None")
              ELSE TheOnly({ RuleParseText(stripped, url) : stripped \in {Strip(clean_text)} })
              : clean_text \in {RuleCleanText(content)} })

\* a configured marker word occurs in the lower-cased text
HasMarker(words, combined_text) ==
    \E i \in 1..Len(words) : Contains(combined_text, Lower(words[i]))

\* ParserAgent._validate_result, for a result whose title is a str
ValidateResult(result) ==
    LET combined_text == Lower(result.title \o <<" ">> \o result.text)
    IN  /\ result.title # <<>>
        /\ Strip(result.title) # <<>>
        /\ Len(Strip(result.title)) >= 2
        /\ ~HasMarker(spam_words, combined_text)
        /\ ~HasMarker(nsfw_words, combined_text)

\* What ParserAgent._call_llm_parser hands back: None (the "error" sentinel, no
\* record in the response, or a record that does not parse) or the parsed record.
\* ok is the truth value of the returned object (None and {} are falsy);
\* title_kind tells a str title from a falsy non-str one (null, 0, []) and from a
\* truthy non-str one (a number, a list), a missing key being the default "".
LLMOutcome(ok, title_kind, title, text) ==
    [ok |-> ok, title_kind |-> title_kind, title |-> title, text |-> text]

LLM_NONE == LLMOutcome(FALSE, "str", <<>>, <<>>)

LLM_GOOD == LLMOutcome(TRUE, "str", <<"R","a","t","e","s"," ","r","i","s","e">>, <<"M","a","r","k","e","t","s"," ","f","a","l","l">>)

LLM_SHORT == LLMOutcome(TRUE, "str", <<" ","A"," ">>, <<"M","a","r","k","e","t","s"," ","f","a","l","l">>)

LLM_NO_TITLE == LLMOutcome(TRUE, "str", <<>>, <<"M","a","r","k","e","t","s"," ","f","a","l","l">>)

LLM_SPAM == LLMOutcome(TRUE, "str", <<"W","i","n","t","e","r"," ","s","a","l","e">>, <<"C","L","I","C","K"," ","H","E","R","E">>)

LLM_NSFW == LLMOutcome(TRUE, "str", <<"S","u","s","s","e","x"," ","w","i","n","s">>, <<"M","o","r","e">>)

LLM_NULL_TITLE == LLMOutcome(TRUE, "falsy", <<>>, <<"M","a","r","k","e","t","s"," ","f","a","l","l">>)

LLM_NUMBER_TITLE == LLMOutcome(TRUE, "nonstr", <<>>, <<"M","a","r","k","e","t","s"," ","f","a","l","l">>)

ParserLLMOutcomes == {LLM_NONE, LLM_GOOD, LLM_SHORT, LLM_NO_TITLE, LLM_SPAM, LLM_NSFW,
                      LLM_NULL_TITLE, LLM_NUMBER_TITLE}

\* _validate_result on the result built from each LLM record, and _rule_based_parse
\* on each text, computed once
VALIDATED ==
    [o \in ParserLLMOutcomes |->
        ValidateResult(ParseResultOf(o.title, o.text, "none", "unknown", TRUE, "None"))]

RULE_BASED == [t \in Texts |-> [u \in URLS |-> RuleBasedParse(t, u)]]

\* the number of parse_with_retry calls the model follows
MaxParseCalls == 3

\* a variant of IsEmptyInput that does not trim the text first
IsEmptyInput_NoStrip(text) == text = <<>>

\* parse_with_retry: `not text or len(text.strip()) == 0`
IsEmptyInput(text) == text = <<>> \/ Len(Strip(text)) = 0

\* parse_with_retry: the ParseResult returned for empty input
EmptyContentResult(url) ==
    ParseResultOf(<<"E","m","p","t","y"," ","C","o","n","t","e","n","t">>, <<>>, url, "unknown", FALSE, "Empty content provided")

\* a variant of CacheHit that never finds the entry
CacheHit_NeverFound(url) == cache[url] # NoEntry /\ cache[url].url # url

\* parse_with_retry: `if url_hash in self.cache`, the key being md5(url)
CacheHit(url) == cache[url] # NoEntry

\* parse_with_retry: `while attempt < max_retries`
ShouldRetry(attempt) == attempt < max_retries

\* a variant of ShouldBackoff that also waits after the last attempt
ShouldBackoff_Always(attempt) == attempt <= max_retries

\* parse_with_retry: `if attempt < max_retries: await asyncio.sleep(0.5 * attempt)`
ShouldBackoff(attempt) == attempt < max_retries

\* the call of caller c for url ends on `path`, returning `result`
ParserDone(c, url, path, result) ==
    /\ p_pc' = [p_pc EXCEPT ![c] = "done"]
    /\ p_ret' = [p_ret EXCEPT ![c] = result]
    /\ p_path' = [p_path EXCEPT ![c] = path]
    /\ last_returned' = [last_returned EXCEPT ![url] = result]

\* the call of caller c goes on, at `pc`
ParserGoesOn(c, pc) ==
    /\ p_pc' = [p_pc EXCEPT ![c] = pc]
    /\ UNCHANGED <<cache, success_count, fallback_count, p_ret, p_path, last_returned>>

\* parse_with_retry after the loop: the rule-based fallback, stored and returned
ParseFallback(c, text, url) ==
    LET result == [RULE_BASED[text][url] EXCEPT !.success = TRUE]
    IN  /\ fallback_count' = fallback_count + 1
        /\ success_count' = success_count + 1
        /\ cache' = [cache EXCEPT ![url] = result]
        /\ ParserDone(c, url, "fallback", result)

\* parse_with_retry up to its first await: the counter, the cache lookup, the
\* check of the input, and the start of the first attempt
ParseCall(c, text, url) ==
    /\ UNCHANGED nonParserVars
    /\ p_pc[c] = "idle"
    /\ total_count < MaxParseCalls
    /\ total_count' = total_count + 1
    /\ p_text' = [p_text EXCEPT ![c] = text]
    /\ p_url' = [p_url EXCEPT ![c] = url]
    /\ p_seen' = [p_seen EXCEPT ![c] = cache[url]]
    /\ p_prior' = [p_prior EXCEPT ![c] = last_returned[url]]
    /\ UNCHANGED <<p_attempt, p_llm_calls, p_sleeps>>
    /\ IF CacheHit(url)
       THEN /\ ParserDone(c, url, "hit", cache[url])
            /\ UNCHANGED <<cache, success_count, fallback_count>>
       ELSE IF IsEmptyInput(text)
       THEN /\ ParserDone(c, url, "empty", EmptyContentResult(url))
            /\ UNCHANGED <<cache, success_count, fallback_count>>
       ELSE IF ShouldRetry(0)
       THEN ParserGoesOn(c, "llm")
       ELSE ParseFallback(c, text, url)

\* parse_with_retry from the return of _call_llm_parser to the next await or to
\* the end of the call
ParseLLMReturn(c, llm_result) ==
    /\ UNCHANGED nonParserVars
    /\ p_pc[c] = "llm"
    /\ p_llm_calls[c] <= max_retries
    /\ p_llm_calls' = [p_llm_calls EXCEPT ![c] = @ + 1]
    /\ UNCHANGED <<total_count, p_text, p_url, p_sleeps, p_seen, p_prior>>
    /\ LET result == ParseResultOf(llm_result.title, llm_result.text, p_url[c],
                                   "unknown", TRUE, "None")
           attempt == p_attempt[c] + 1
       IN  IF llm_result.ok /\ llm_result.title_kind = "nonstr"
           THEN \* result.title.strip() raises AttributeError out of the call
                /\ p_pc' = [p_pc EXCEPT ![c] = "done"]
                /\ p_ret' = [p_ret EXCEPT ![c] = [raised |-> "AttributeError"]]
                /\ p_path' = [p_path EXCEPT ![c] = "raised"]
                /\ UNCHANGED <<cache, success_count, fallback_count, p_attempt,
                               last_returned>>
           ELSE IF /\ llm_result.ok
                   /\ llm_result.title_kind = "str"
                   /\ VALIDATED[llm_result]
           THEN /\ success_count' = success_count + 1
                /\ cache' = [cache EXCEPT ![p_url[c]] = result]
                /\ ParserDone(c, p_url[c], "llm", result)
                /\ UNCHANGED <<fallback_count, p_attempt>>
           ELSE /\ p_attempt' = [p_attempt EXCEPT ![c] = attempt]
                /\ IF ShouldBackoff(attempt)
                   THEN ParserGoesOn(c, "sleep")
                   ELSE IF ShouldRetry(attempt)
                   THEN ParserGoesOn(c, "llm")
                   ELSE ParseFallback(c, p_text[c], p_url[c])

\* asyncio.sleep(0.5 * attempt) is over: the loop test, then the next attempt or
\* the fallback
ParseWake(c) ==
    /\ UNCHANGED nonParserVars
    /\ p_pc[c] = "sleep"
    /\ p_sleeps[c] <= max_retries
    /\ p_sleeps' = [p_sleeps EXCEPT ![c] = @ + 1]
    /\ UNCHANGED <<total_count, p_text, p_url, p_attempt, p_llm_calls, p_seen, p_prior>>
    /\ IF ShouldRetry(p_attempt[c])
       THEN ParserGoesOn(c, "llm")
       ELSE ParseFallback(c, p_text[c], p_url[c])

\* run: the dict it builds from the ParseResult of parse_with_retry (author and
\* language are never set: None)
RunResult(result) ==
    [title |-> result.title, text |-> result.text, url |-> result.url,
     published_at |-> result.published_at, source |-> result.source,
     author |-> "None", language |-> "None"]

\* the caller has taken the result (or the exception): its coroutine is gone
ParseReturn(c) ==
    /\ UNCHANGED nonParserVars
    /\ p_pc[c] = "done"
    /\ p_pc' = [p_pc EXCEPT ![c] = "idle"]
    /\ p_text' = [p_text EXCEPT ![c] = NoText]
    /\ p_url' = [p_url EXCEPT ![c] = "none"]
    /\ p_attempt' = [p_attempt EXCEPT ![c] = 0]
    /\ p_ret' = [p_ret EXCEPT ![c] = NoEntry]
    /\ p_llm_calls' = [p_llm_calls EXCEPT ![c] = 0]
    /\ p_sleeps' = [p_sleeps EXCEPT ![c] = 0]
    /\ p_path' = [p_path EXCEPT ![c] = "none"]
    /\ p_seen' = [p_seen EXCEPT ![c] = NoEntry]
    /\ p_prior' = [p_prior EXCEPT ![c] = NoEntry]
    /\ UNCHANGED <<cache, total_count, success_count, fallback_count, last_returned>>

\* ParserAgent.__init__, and no call in progress
InitParser ==
    /\ cache = [u \in URLS |-> NoEntry]
    /\ total_count = 0
    /\ success_count = 0
    /\ fallback_count = 0
    /\ p_pc = [c \in Callers |-> "idle"]
    /\ p_text = [c \in Callers |-> NoText]
    /\ p_url = [c \in Callers |-> "none"]
    /\ p_attempt = [c \in Callers |-> 0]
    /\ p_ret = [c \in Callers |-> NoEntry]
    /\ p_llm_calls = [c \in Callers |-> 0]
    /\ p_sleeps = [c \in Callers |-> 0]
    /\ p_path = [c \in Callers |-> "none"]
    /\ p_seen = [c \in Callers |-> NoEntry]
    /\ p_prior = [c \in Callers |-> NoEntry]
    /\ last_returned = [u \in URLS |-> NoEntry]

----------------------------------------------------------------------------
(* Claims about the ParserAgent, checked under SpecParser.                 *)

ParseDone(c) == p_pc[c] = "done"

\* the text is empty or consists of whitespace only
BlankText(text) == \A i \in 1..Len(text) : IsSpace(text[i])

\* C2, as stated: in every reachable state, for any URL and after any earlier
\* parses, a call with empty or whitespace-only text returns success=False with
\* error_reason "Empty content provided" and makes no LLM call.
C2_EmptyInputAlwaysRejected ==
    \A c \in Callers :
        (ParseDone(c) /\ BlankText(p_text[c])) =>
            /\ p_ret[c] = EmptyContentResult(p_url[c])
            /\ p_llm_calls[c] = 0

\* C2, amended: a call with empty or whitespace-only text whose URL is not in the
\* cache returns success=False with error_reason "Empty content provided" and
\* makes no LLM call (the cache lookup comes first: for a cached URL the stored
\* result is returned).
C2_EmptyInputRejectedOnMiss ==
    \A c \in Callers :
        (ParseDone(c) /\ BlankText(p_text[c]) /\ p_seen[c] = NoEntry) =>
            /\ p_path[c] = "empty"
            /\ p_ret[c].success = FALSE
            /\ p_ret[c].error_reason = "Empty content provided"
            /\ p_llm_calls[c] = 0

\* C2 witness: whitespace-only text is rejected on a miss, after an earlier parse
\* has filled the cache for another URL
C2_Witness ==
    \E c \in Callers :
        /\ ParseDone(c)
        /\ p_text[c] = TEXT_BLANK
        /\ p_path[c] = "empty"
        /\ \E u \in URLS : cache[u] # NoEntry

\* how far the call of caller c is from its end: every step of the call lowers it
ParseRank(c) ==
    IF p_pc[c] = "llm" THEN 2 * (max_retries - p_attempt[c])
    ELSE IF p_pc[c] = "sleep" THEN 2 * (max_retries - p_attempt[c]) + 1
    ELSE 0

ParseInFlight(c) == p_pc[c] \in {"llm", "sleep"}

\* the attempts and the waits of the call of caller c, so far
ParseBounded(c) ==
    /\ p_llm_calls[c] <= max_retries
    /\ p_attempt[c] <= p_llm_calls[c]
    /\ p_pc[c] = "llm" => p_sleeps[c] = p_llm_calls[c]
    /\ p_pc[c] = "sleep" => p_sleeps[c] = p_llm_calls[c] - 1
    /\ (ParseDone(c) /\ p_llm_calls[c] > 0) => p_sleeps[c] = p_llm_calls[c] - 1
    /\ (ParseDone(c) /\ p_llm_calls[c] = 0) => p_sleeps[c] = 0
    /\ (ParseDone(c) /\ p_attempt[c] = max_retries) =>
            /\ p_path[c] = "fallback"
            /\ p_ret[c] = [RULE_BASED[p_text[c]][p_url[c]] EXCEPT !.success = TRUE]
    /\ (ParseDone(c) /\ p_path[c] = "fallback") => p_llm_calls[c] = max_retries

\* C3: for non-empty text on a cache miss parse_with_retry makes at most
\* max_retries LLM calls, waits between consecutive attempts and not after the
\* last one, returns the rule-based result when every attempt has failed, and
\* terminates: a call in progress can always take a step, and each of its steps
\* brings it strictly closer to its end.
C3_BoundedRetryThenFallback ==
    [][\A c \in Callers :
            /\ ParseBounded(c)'
            /\ ParseInFlight(c) =>
                  /\ ENABLED (ParseWake(c) \/ \E o \in ParserLLMOutcomes : ParseLLMReturn(c, o))
                  /\ (p_pc'[c] # p_pc[c] \/ p_llm_calls'[c] # p_llm_calls[c])
                        => ParseRank(c)' < ParseRank(c)]_vars

\* C3 witness: a call has ended in the fallback after max_retries failed attempts
\* and max_retries - 1 waits
C3_Witness ==
    \E c \in Callers :
        /\ ParseDone(c)
        /\ p_path[c] = "fallback"
        /\ p_llm_calls[c] = max_retries
        /\ p_sleeps[c] = max_retries - 1

\* C4, as stated: after any call for URL u has returned r, with success=True or
\* success=False, every later call with the same URL returns r and makes no LLM
\* call.
C4_EveryResultIsCached ==
    \A c \in Callers :
        (ParseDone(c) /\ p_prior[c] # NoEntry) =>
            /\ p_ret[c] = p_prior[c]
            /\ p_llm_calls[c] = 0

\* C4, amended: after a call for URL u has returned r with success=True (from the
\* LLM or from the fallback), a call with the same URL u that begins while r is the
\* latest result returned for u returns r, whatever text it is given, and makes no
\* LLM call.  The success=False result for empty content is not cached.
C4_SuccessfulResultIsCached ==
    \A c \in Callers :
        (ParseDone(c) /\ p_prior[c] # NoEntry /\ p_prior[c].success) =>
            /\ p_ret[c] = p_prior[c]
            /\ p_ret[c].success
            /\ p_llm_calls[c] = 0

\* C4 witness: a call with empty text returned the result of an earlier call
C4_Witness ==
    \E c \in Callers :
        /\ ParseDone(c)
        /\ p_prior[c] # NoEntry
        /\ p_prior[c].success
        /\ p_text[c] = TEXT_EMPTY
        /\ p_ret[c] = p_prior[c]

\* the validation policy of the spec: a title of at least 2 non-blank characters
\* and no spam or NSFW marker in title and body
MeetsValidationPolicy(r) ==
    /\ Len(Strip(r.title)) >= 2
    /\ ~HasMarker(spam_words, Lower(r.title \o << " " >> \o r.text))
    /\ ~HasMarker(nsfw_words, Lower(r.title \o << " " >> \o r.text))

\* C5: every result returned with success=True, and every entry of the parser
\* cache, meets the validation policy, on the LLM path and on the fallback path.
C5_ValidationPolicyOnBothPaths ==
    /\ \A c \in Callers :
          (ParseDone(c) /\ p_path[c] # "raised" /\ p_ret[c].success)
              => MeetsValidationPolicy(p_ret[c])
    /\ \A u \in URLS : cache[u] # NoEntry => MeetsValidationPolicy(cache[u])

----------------------------------------------------------------------------
(* The users table: src/database/db.py                                     *)

\* telegram ids of the bot's users
\* coroutines evaluating articles for the user: cmd_digest awaits one article
\* after the other, so one is_relevant call is in progress at a time
Evaluators == {"e1"}

Users == {101}

\* the "show everything" tag of a profile without specific preferences
\* (the Cyrillic word is written here in Latin letters)
ALL_TAG == "Vsyo"

\* tags that articles carry and users like or dislike (Cyrillic in the source)
ArticleTags == {"tehnologii", "nauka", "sport"}

\* a tag that articles carry and that no like or dislike button is pressed for
ContentOnlyTags == {"kino"}

ProfileTags == ArticleTags \cup ContentOnlyTags \cup {ALL_TAG}

NoRow == [none |-> TRUE]

ProfileOf_NoSentinel(users, telegram_id) ==
    IF users[telegram_id] = NoRow
    THEN [preferred_tags |-> {}, blocked_tags |-> {}]
    ELSE users[telegram_id]

\* get_user_profile: the profile it returns
ProfileOf(users, telegram_id) ==
    IF users[telegram_id] = NoRow
    THEN [preferred_tags |-> {ALL_TAG}, blocked_tags |-> {}]
    ELSE IF users[telegram_id].preferred_tags = {}
    THEN [preferred_tags |-> {ALL_TAG}, blocked_tags |-> users[telegram_id].blocked_tags]
    ELSE users[telegram_id]

\* get_user_profile: the table it leaves (a missing row is inserted, an empty
\* preferred_tags is replaced by the sentinel)
get_user_profile(users, telegram_id) ==
    [users EXCEPT ![telegram_id] = ProfileOf(users, telegram_id)]

\* update_user_tags: the table it leaves
update_user_tags(users, telegram_id, tag, action) ==
    LET profile == ProfileOf(users, telegram_id)
        liked == (profile.preferred_tags \cup {tag})
        preferred ==
            IF action = "like"
            THEN IF ALL_TAG \in liked /\ Cardinality(liked) > 1
                 THEN liked \ {ALL_TAG} ELSE liked
            ELSE IF action = "dislike" THEN profile.preferred_tags \ {tag}
            ELSE profile.preferred_tags
        blocked ==
            IF action = "like" THEN profile.blocked_tags \ {tag}
            ELSE IF action = "dislike" THEN profile.blocked_tags \cup {tag}
            ELSE profile.blocked_tags
    IN  [users EXCEPT ![telegram_id] =
            [preferred_tags |-> IF preferred = {} THEN {ALL_TAG} ELSE preferred,
             blocked_tags |-> blocked]]

\* a variant of update_user_interests that leaves the preferred tags as they are
update_user_interests_BlockedOnly(users, telegram_id, preferred_tags) ==
    [users EXCEPT ![telegram_id] = ProfileOf_NoSentinel(users, telegram_id)]

\* update_user_interests: the table it leaves
update_user_interests(users, telegram_id, preferred_tags) ==
    [users EXCEPT ![telegram_id] =
        [preferred_tags |-> preferred_tags,
         blocked_tags |-> IF users[telegram_id] = NoRow THEN {}
                          ELSE users[telegram_id].blocked_tags]]

----------------------------------------------------------------------------
(* PersonalizationAgent: src/agents/recommend_agent.py                     *)
(* Weights are fixed-point numbers: WEIGHT_ONE stands for 1.0.             *)

WEIGHT_ONE == 1000000

\* a tag that is not a key of the interests dict
ABSENT == -1

NoInterests == [t \in ProfileTags |-> ABSENT]

\* self.decay_factor, in hundredths
decay_factor == 95

\* _load_user_interests: the weight below which an interest is deleted (0.1)
INTEREST_FLOOR == 100000

\* _load_user_interests: the weight given to a preferred tag (0.8)
INITIAL_WEIGHT == 800000

\* _update_user_interests: interaction_strength * 0.1 at strength 0.1
REINFORCEMENT == 10000

TimeContexts == {"morning", "afternoon", "evening", "night"}

\* self.time_preferences (Cyrillic in the source)
time_preferences ==
    [tc \in TimeContexts |->
        CASE tc = "morning" -> {"tehnologii", "novosti", "biznes"}
          [] tc = "afternoon" -> {"nauka", "issledovaniya", "analitika"}
          [] tc = "evening" -> {"kultura", "iskusstvo", "kino", "muzyka"}
          [] tc = "night" -> {"nauka", "filosofiya", "psihologiya"}]

MinOf(a, b) == IF a < b THEN a ELSE b

MaxOf(a, b) == IF a > b THEN a ELSE b

\* the keys of an interests dict
InterestKeys(interests) == {t \in ProfileTags : interests[t] # ABSENT}

\* dict.get(tag, 0.0); a tag outside the modelled tags is never a key
WeightOf(interests, tag) ==
    IF tag \in ProfileTags /\ interests[tag] # ABSENT THEN interests[tag] ELSE 0

\* _load_user_interests: the dict before the decay, the cached one or a fresh
\* one built from the profile
CachedOrFresh(users, interests, loaded, user_id) ==
    IF user_id \in loaded THEN interests[user_id]
    ELSE [t \in ProfileTags |->
            IF t \in ProfileOf(users, user_id).preferred_tags
            THEN INITIAL_WEIGHT ELSE ABSENT]

\* _load_user_interests: the decay loop
Decay(interests) ==
    [t \in ProfileTags |->
        IF interests[t] = ABSENT THEN ABSENT
        ELSE LET w == (interests[t] * decay_factor) \div 100
             IN  IF w < INTEREST_FLOOR THEN ABSENT ELSE w]

\* _load_user_interests: the dict it returns and leaves in self.user_interests
LoadUserInterests(users, interests, loaded, user_id) ==
    Decay(CachedOrFresh(users, interests, loaded, user_id))

\* _load_user_interests: the users table it leaves (get_user_profile is called
\* only when the user is not cached)
LoadUserTable(users, loaded, user_id) ==
    IF user_id \in loaded THEN users ELSE get_user_profile(users, user_id)


\* _has_sufficient_interests, on the dict that _load_user_interests returned
HasSufficientInterests(interests) == Cardinality(InterestKeys(interests)) >= 3

\* _update_user_interests: the dict after one tag is reinforced
UpdateInterest(interests, tag) ==
    [interests EXCEPT ![tag] = MinOf(WEIGHT_ONE, WeightOf(interests, tag) + REINFORCEMENT)]

\* is_relevant: `for tag in tags: self._update_user_interests(user_id, tag, 0.1)`
RECURSIVE UpdateInterests(_, _)
UpdateInterests(interests, tags) ==
    IF tags = <<>> THEN interests
    ELSE UpdateInterests(UpdateInterest(interests, Head(tags)), Tail(tags))

RECURSIVE SumWeights(_, _)
SumWeights(interests, tags) ==
    IF tags = <<>> THEN 0
    ELSE WeightOf(interests, Head(tags)) + SumWeights(interests, Tail(tags))

RECURSIVE MaxWeight(_, _)
MaxWeight(interests, tags) ==
    IF tags = <<>> THEN 0
    ELSE MaxOf(WeightOf(interests, Head(tags)), MaxWeight(interests, Tail(tags)))

\* _calculate_content_score
CalculateContentScore(user_interests_, content_tags) ==
    IF content_tags = <<>> THEN 0
    ELSE LET total_score == SumWeights(user_interests_, content_tags)
             max_score == MaxWeight(user_interests_, content_tags)
             combined_score ==
                 ((total_score \div Len(content_tags)) * 6) \div 10 + (max_score * 4) \div 10
         IN  MinOf(WEIGHT_ONE, combined_score)

\* _apply_time_context, for the time context that _get_time_context returns
ApplyTimeContext(user_interests_, time_context) ==
    [t \in ProfileTags |->
        IF t \in time_preferences[time_context] /\ user_interests_[t] # ABSENT
        THEN MinOf(WEIGHT_ONE, (user_interests_[t] * 11) \div 10)
        ELSE user_interests_[t]]

\* _should_explore: self.exploration_tracker is never written, so the user's
\* exploration count is 0
ShouldExplore(total) == (total + 0) % 5 = 0

\* _find_exploration_content: the first three tags of the dict with a weight in
\* [0.3, 0.7]; the order of the dict comes from the order of a JSON list built
\* from a set, so any three of them can be the first three
FindExplorationContent(user_interests_) ==
    LET band == {t \in ProfileTags :
                    /\ user_interests_[t] # ABSENT
                    /\ 300000 <= user_interests_[t]
                    /\ user_interests_[t] <= 700000}
    IN  IF Cardinality(band) <= 3 THEN {band}
        ELSE {S \in SUBSET band : Cardinality(S) = 3}

\* the elements of a list
Elems(seq) == {seq[i] : i \in 1..Len(seq)}

\* _calculate_diversity_score
CalculateDiversityScore(new_tags, existing_recommendations) ==
    IF existing_recommendations = <<>> THEN WEIGHT_ONE
    ELSE LET common_tags == Elems(new_tags) \cap Elems(existing_recommendations)
         IN  MaxOf(0, WEIGHT_ONE -
                 (Cardinality(common_tags) * WEIGHT_ONE) \div MaxOf(Len(new_tags), 1))

\* is_relevant: the exploration step returns False
ExplorationRejects(adjusted_interests, tags, total, exploration_tags) ==
    /\ ShouldExplore(total)
    /\ exploration_tags # {}
    /\ \A i \in 1..Len(tags) : tags[i] \notin exploration_tags
    /\ CalculateContentScore(adjusted_interests, tags) < 300000
    /\ \A i \in 1..Len(tags) : ~(WeightOf(adjusted_interests, tags[i]) > 200000)

\* is_relevant: final_score, with no interaction history (run passes none)
FinalScore(content_score, tags) ==
    (content_score * 7) \div 10 + (CalculateDiversityScore(tags, <<>>) * 3) \div 10

\* is_relevant: the threshold for a recommendation (0.3)
threshold == 300000

\* a variant of AnyBlocked that looks at the first content tag only
AnyBlocked_FirstOnly(tags, blocked_tags) == tags # <<>> /\ tags[1] \in blocked_tags

\* is_relevant: `for tag in tags: if tag in blocked_tags: return False`
AnyBlocked(tags, blocked_tags) == \E i \in 1..Len(tags) : tags[i] \in blocked_tags

\* what the LLM client can do with a request
LLM_YES == [kind |-> "reply", content |-> <<"Y","e","s",","," ","i","t"," ","i","s","."," ">>]

LLM_NO == [kind |-> "reply", content |-> <<"N","o">>]

NoOutcome == [kind |-> "none", content |-> <<>>]

LLM_HTTP_ERROR == [kind |-> "status", content |-> <<>>]

LLM_EXCEPTION == [kind |-> "exception", content |-> <<>>]

RecommendLLMOutcomes == {LLM_YES, LLM_NO, LLM_HTTP_ERROR, LLM_EXCEPTION}

LLM_ERROR_SENTINEL == <<"e","r","r","o","r">>

\* call_llm: the text of the reply, stripped, or "error"
call_llm(outcome) ==
    IF outcome.kind = "reply" THEN Strip(outcome.content) ELSE LLM_ERROR_SENTINEL

\* a variant of RefineRecommendationWithLLM that rejects when the LLM is unavailable
RefineRecommendationWithLLM_FailClosed(response) == Contains(Lower(response), <<"y","e","s">>)

\* _refine_recommendation_with_llm, on the response of call_llm
RefineRecommendationWithLLM(response) ==
    IF response = LLM_ERROR_SENTINEL THEN TRUE
    ELSE Contains(Lower(response), <<"y","e","s">>)


\* the tag lists of the articles handed to the recommender
ContentTagLists == {<<>>, <<"nauka">>, <<"sport", "nauka">>}

NoProfile == [preferred_tags |-> {}, blocked_tags |-> {}]

\* is_relevant evaluations (with a non-empty tag list) the model follows
MaxEvals == 3

\* the evaluations followed where the exploration step is looked at:
\* _should_explore selects the fifth
MaxExploreEvals == 5

\* the tag lists of the articles handed to the recommender there
ExploreTagLists == {<<"kino">>, <<"nauka">>}

\* the call of caller c leaves is_relevant, or suspends in it
RecommendSlot(c, user_id, tags, pc, branch, profile, ret, blocked, sentinel, reinforced, score) ==
    /\ r_content_score' = [r_content_score EXCEPT ![c] = score]
    /\ r_pc' = [r_pc EXCEPT ![c] = pc]
    /\ r_user' = [r_user EXCEPT ![c] = user_id]
    /\ r_tags' = [r_tags EXCEPT ![c] = tags]
    /\ r_branch' = [r_branch EXCEPT ![c] = branch]
    /\ r_profile' = [r_profile EXCEPT ![c] = profile]
    /\ r_ret' = [r_ret EXCEPT ![c] = ret]
    /\ r_blocked' = [r_blocked EXCEPT ![c] = blocked]
    /\ r_sentinel' = [r_sentinel EXCEPT ![c] = sentinel]
    /\ r_reinforced' = [r_reinforced EXCEPT ![c] = reinforced]

\* is_relevant: the accepted content reinforces the interests of the user and
\* the keys of the dict are persisted as the preferred tags
Reinforce(users, interests, user_id, tags) ==
    LET updated == UpdateInterests(interests, tags)
    IN  /\ user_interests' = [user_interests EXCEPT ![user_id] = updated]
        /\ db_users' = IF tags = <<>> THEN users
                       ELSE update_user_interests(users, user_id, InterestKeys(updated))

\* is_relevant leaves the interests as the last _load_user_interests left them
NoReinforce(users, interests, user_id) ==
    /\ user_interests' = [user_interests EXCEPT ![user_id] = interests]
    /\ db_users' = users

NotAllTag(tag) == tag # ALL_TAG

\* update_user_tags(telegram_id, tag, action), from the like and dislike buttons
UpdateUserTags(telegram_id, tag, action) ==
    /\ db_users' = update_user_tags(db_users, telegram_id, tag, action)
    /\ liked_tags' = [liked_tags EXCEPT ![telegram_id] =
                         IF action = "like" THEN @ \cup {tag} ELSE @ \ {tag}]
    /\ UNCHANGED <<user_interests, interests_loaded, total_recommendations, r_pc, r_user, r_tags, r_branch, r_profile,
                   r_ret, r_llm_calls, r_outcome, r_blocked, r_sentinel, r_reinforced,
                   r_content_score>>
    /\ UNCHANGED nonRecommendVars

\* is_relevant(user_id, category, tags), up to its first await or its return
IsRelevantCall(c, user_id, tags, time_context, max_evals) ==
    /\ r_pc[c] = "idle"
    /\ UNCHANGED <<r_llm_calls, r_outcome, liked_tags>>
    /\ UNCHANGED nonRecommendVars
    /\ IF tags = <<>>
       THEN /\ RecommendSlot(c, user_id, tags, "done", "no_tags", NoProfile, FALSE,
                             FALSE, FALSE, FALSE, 0)
            /\ UNCHANGED <<db_users, user_interests, interests_loaded,
                           total_recommendations>>
       ELSE
        LET users1 == LoadUserTable(db_users, interests_loaded, user_id)
            i1 == LoadUserInterests(db_users, user_interests, interests_loaded, user_id)
            total == total_recommendations + 1
            users2 == get_user_profile(users1, user_id)
            profile == ProfileOf(users1, user_id)
            i2 == Decay(i1)
            adjusted_interests == ApplyTimeContext(i2, time_context)
            content_score == CalculateContentScore(adjusted_interests, tags)
            final_score == FinalScore(content_score, tags)
            blocked == \E t \in profile.blocked_tags : \E i \in 1..Len(tags) : tags[i] = t
            sentinel == ALL_TAG \in profile.preferred_tags /\ profile.blocked_tags = {}
            Return(branch, ret, interests, score) ==
                /\ RecommendSlot(c, user_id, tags, "done", branch, profile, ret,
                                 blocked, sentinel, FALSE, score)
                /\ NoReinforce(users2, interests, user_id)
            Await(branch, interests, score) ==
                /\ RecommendSlot(c, user_id, tags, "llm", branch, profile, FALSE,
                                 blocked, sentinel, FALSE, score)
                /\ NoReinforce(users2, interests, user_id)
        IN  /\ total_recommendations < max_evals
            /\ total_recommendations' = total
            /\ interests_loaded' = interests_loaded \cup {user_id}
            /\ IF ALL_TAG \in profile.preferred_tags
               THEN IF AnyBlocked(tags, profile.blocked_tags)
                    THEN Return("sentinel", FALSE, i1, 0)
                    ELSE Await("sentinel", i2, 0)
               ELSE IF ~HasSufficientInterests(i1)
               THEN IF AnyBlocked(tags, profile.blocked_tags)
                    THEN Return("new", FALSE, i1, 0)
                    ELSE Await("new", i2, 0)
               ELSE \E exploration_tags \in FindExplorationContent(adjusted_interests) :
                    IF ExplorationRejects(adjusted_interests, tags, total, exploration_tags)
                    THEN Return("explored", FALSE, i2, content_score)
                    ELSE IF AnyBlocked(tags, profile.blocked_tags)
                    THEN Return("established", FALSE, i2, content_score)
                    ELSE IF final_score >= threshold /\ content_score > 200000
                    THEN Await("established", i2, content_score)
                    ELSE IF final_score >= threshold
                    THEN /\ RecommendSlot(c, user_id, tags, "done", "established", profile,
                                          TRUE, blocked, sentinel, TRUE, content_score)
                         /\ Reinforce(users2, i2, user_id, tags)
                    ELSE Return("established", FALSE, i2, content_score)

\* is_relevant, from the return of call_llm to its own return
IsRelevantLLMReturn(c, outcome) ==
    /\ r_pc[c] = "llm"
    /\ UNCHANGED nonRecommendVars
    /\ LET response == call_llm(outcome)
           llm_validation == RefineRecommendationWithLLM(response)
           user_id == r_user[c]
           still_on_sentinel ==
               /\ Cardinality(r_profile[c].preferred_tags) = 1
               /\ ALL_TAG \in r_profile[c].preferred_tags
           to_update ==
               IF r_branch[c] = "sentinel"
               THEN IF still_on_sentinel THEN <<>> ELSE SelectSeq(r_tags[c], NotAllTag)
               ELSE r_tags[c]
       IN  /\ r_llm_calls' = [r_llm_calls EXCEPT ![c] = @ + 1]
           /\ r_outcome' = [r_outcome EXCEPT ![c] = outcome]
           /\ r_pc' = [r_pc EXCEPT ![c] = "done"]
           /\ r_ret' = [r_ret EXCEPT ![c] = llm_validation]
           /\ IF llm_validation
              THEN /\ Reinforce(db_users, user_interests[user_id], user_id, to_update)
                   /\ r_reinforced' = [r_reinforced EXCEPT ![c] = to_update # <<>>]
              ELSE UNCHANGED <<user_interests, db_users, r_reinforced>>
           /\ UNCHANGED <<interests_loaded, total_recommendations, r_user,
                          r_tags, r_branch, r_profile, r_blocked, r_sentinel,
                          r_content_score, liked_tags>>

\* the caller takes the result of run
IsRelevantReturn(c) ==
    /\ r_pc[c] = "done"
    /\ RecommendSlot(c, 0, <<>>, "idle", "none", NoProfile, FALSE, FALSE, FALSE, FALSE, 0)
    /\ r_llm_calls' = [r_llm_calls EXCEPT ![c] = 0]
    /\ r_outcome' = [r_outcome EXCEPT ![c] = NoOutcome]
    /\ UNCHANGED <<db_users, user_interests, interests_loaded, total_recommendations,
                   liked_tags>>
    /\ UNCHANGED nonRecommendVars

InitRecommend ==
    /\ db_users = [u \in Users |-> NoRow]
    /\ user_interests = [u \in Users |-> NoInterests]
    /\ interests_loaded = {}
    /\ total_recommendations = 0
    /\ r_pc = [c \in Evaluators |-> "idle"]
    /\ r_user = [c \in Evaluators |-> 0]
    /\ r_tags = [c \in Evaluators |-> <<>>]
    /\ r_branch = [c \in Evaluators |-> "none"]
    /\ r_profile = [c \in Evaluators |-> NoProfile]
    /\ r_ret = [c \in Evaluators |-> FALSE]
    /\ r_llm_calls = [c \in Evaluators |-> 0]
    /\ r_outcome = [c \in Evaluators |-> NoOutcome]
    /\ r_blocked = [c \in Evaluators |-> FALSE]
    /\ r_sentinel = [c \in Evaluators |-> FALSE]
    /\ r_reinforced = [c \in Evaluators |-> FALSE]
    /\ r_content_score = [c \in Evaluators |-> 0]
    /\ liked_tags = [u \in Users |-> {}]

----------------------------------------------------------------------------
(* Claims about the PersonalizationAgent, checked under SpecRecommend.     *)

\* the weight the user has for the tag, 0 when the tag is not an interest
StoredWeight(interests, loaded, user_id, tag) ==
    IF user_id \in loaded THEN WeightOf(interests[user_id], tag) ELSE 0

\* C6: in each branch of is_relevant (sentinel user, fewer than 3 interests,
\* established profile), a call for content with a tag in the user's blocked_tags
\* returns False at once, without asking the LLM, raises no interest weight
\* and adds no preferred tag.
C6_BlockListAlwaysEnforced ==
    [][\A c \in Evaluators :
        (r_pc[c] = "idle" /\ r_pc'[c] # "idle" /\ r_blocked'[c]) =>
            /\ r_pc'[c] = "done"
            /\ r_ret'[c] = FALSE
            /\ r_llm_calls'[c] = 0
            /\ \A t \in ProfileTags :
                  \/ StoredWeight(user_interests', interests_loaded', r_user'[c], t)
                        <= StoredWeight(user_interests, interests_loaded, r_user'[c], t)
                  \/ /\ r_user'[c] \notin interests_loaded
                     /\ StoredWeight(user_interests', interests_loaded', r_user'[c], t)
                            < INITIAL_WEIGHT
            /\ db_users'[r_user'[c]] = ProfileOf(db_users, r_user'[c])]_vars

\* C6 witness: a user with an established profile was refused content with a
\* blocked tag
C6_Witness ==
    \E c \in Evaluators :
        /\ r_pc[c] = "done"
        /\ r_blocked[c]
        /\ r_branch[c] = "established"
        /\ r_ret[c] = FALSE

\* C7: for a user with the sentinel among the preferred tags and no blocked tag,
\* is_relevant returns True for content with exactly one tag when the LLM answers
\* yes and when the LLM is unavailable (an error status or an exception).
C7_SentinelUserAccepts ==
    \A c \in Evaluators :
        (/\ r_pc[c] = "done"
         /\ r_sentinel[c]
         /\ Len(r_tags[c]) = 1
         /\ r_outcome[c] \in {LLM_YES, LLM_HTTP_ERROR, LLM_EXCEPTION}) => r_ret[c] = TRUE

\* C7 witness: a sentinel user without blocked tags got single-tag content
\* accepted on the LLM's yes
C7_Witness ==
    \E c \in Evaluators :
        /\ r_pc[c] = "done"
        /\ r_sentinel[c]
        /\ Len(r_tags[c]) = 1
        /\ r_outcome[c] = LLM_YES
        /\ r_ret[c] = TRUE

\* ---------------------------------------------------------------------------
\* The orchestrator (src/services/news_pipeline.py) under the /digest handler
\* (src/bot/handlers/digest.py)
\* ---------------------------------------------------------------------------

\* the updates the dispatcher handles at the same time
Handlers == {"h1", "h2"}

PipelineUrls == {"https://a.example/1", "https://b.example/2"}

Styles == {"brief", "full"}

\* RawArticle: what the fetcher hands to the handler
\* (has_raw_text: the dict has the key "raw_text")
RawNews == [url : PipelineUrls, has_raw_text : BOOLEAN]

\* the lists fetch_raw_news_sample can return
RawNewsLists ==
    {<<>>} \cup {<<a>> : a \in RawNews} \cup {<<a, b>> : a \in RawNews, b \in RawNews}

\* get_cached_news returns None
NoCached == [title |-> <<"-">>, tags |-> <<>>, category |-> "none", rendered_text |-> <<"-">>]

\* the run functions of the agents: how many parameters have no default, and how
\* many parameters there are
StageSignature ==
    [parse     |-> [required |-> 2, accepted |-> 2],
     summarize |-> [required |-> 1, accepted |-> 4],
     tags      |-> [required |-> 1, accepted |-> 2],
     recommend |-> [required |-> 3, accepted |-> 3],
     render    |-> [required |-> 5, accepted |-> 9]]

\* the positional arguments process_news_for_user passes to each of them
StageCallSite ==
    [parse |-> 1, summarize |-> 1, tags |-> 1, recommend |-> 2, render |-> 1]

\* Python binds the arguments of a call before the body of the function runs and
\* raises TypeError when a parameter without default is left without argument
BindsArguments(stage) ==
    /\ StageCallSite[stage] >= StageSignature[stage].required
    /\ StageCallSite[stage] <= StageSignature[stage].accepted

\* cmd_digest: raw_news_list[:1]
FirstOnly(raw_news_list) == SubSeq(raw_news_list, 1, IF Len(raw_news_list) < 1 THEN 0 ELSE 1)

\* what cmd_digest answers with: one of its fixed texts, and the detail of an
\* exception it formats into the text (none in the code)
Answer(text) == [text |-> text, detail |-> "none"]

ANSWER_PREPARING == Answer("preparing the digest")

ANSWER_NO_NEWS == Answer("no news found")

ANSWER_ARTICLE_FAILED == Answer("an error occurred while processing one of the news items")

ANSWER_NOTHING_RELEVANT == Answer("no new relevant news")

ANSWER_LOAD_FAILED == Answer("could not load the news, try later")

\* process_news_for_user, up to its first suspension, its return or its raise:
\* [pc, exc, stages, hit, ret]
ProcessNewsForUser(raw_news, user_id, style) ==
    LET cached == cached_news[raw_news.url]
    IN  IF cached # NoCached
        THEN IF BindsArguments("recommend")
             THEN [pc |-> "in_recommend", exc |-> "none", stages |-> <<>>, hit |-> TRUE]
             ELSE [pc |-> "raised", exc |-> "TypeError", stages |-> <<>>, hit |-> TRUE]
        ELSE IF ~raw_news.has_raw_text
             THEN [pc |-> "raised", exc |-> "KeyError", stages |-> <<>>, hit |-> FALSE]
        ELSE IF BindsArguments("parse")
             THEN [pc |-> "in_parse", exc |-> "none", stages |-> <<>>, hit |-> FALSE]
             ELSE [pc |-> "raised", exc |-> "TypeError", stages |-> <<>>, hit |-> FALSE]

CatchesArticleError_KeyErrorOnly(exc) == exc = "KeyError"

\* cmd_digest: except Exception around process_news_for_user
CatchesArticleError(exc) == exc \in {"TypeError", "KeyError"}

\* the handler h is at pc with these locals
DigestSlot(h, pc, list, i, sent_any, answers) ==
    /\ dg_pc' = [dg_pc EXCEPT ![h] = pc]
    /\ dg_list' = [dg_list EXCEPT ![h] = list]
    /\ dg_i' = [dg_i EXCEPT ![h] = i]
    /\ dg_sent_any' = [dg_sent_any EXCEPT ![h] = sent_any]
    /\ dg_answers' = [dg_answers EXCEPT ![h] = answers]

\* cmd_digest: the loop over raw_news_list from its article i on, up to the next
\* suspension of the handler
DigestLoop(h, list, i, sent_any, answers) ==
    IF i > Len(list)
    THEN /\ DigestSlot(h, "done", list, i, sent_any,
                       IF sent_any THEN answers ELSE Append(answers, ANSWER_NOTHING_RELEVANT))
         /\ UNCHANGED <<pl_exc, pl_hit, pl_stages, pl_again, processed>>
    ELSE LET r == ProcessNewsForUser(list[i], dg_user[h], dg_style[h])
             key == <<dg_user[h], list[i].url, dg_style[h]>>
         IN  /\ pl_exc' = [pl_exc EXCEPT ![h] = r.exc]
             /\ pl_hit' = [pl_hit EXCEPT ![h] = r.hit]
             /\ pl_stages' = [pl_stages EXCEPT ![h] = r.stages]
             /\ pl_again' = [pl_again EXCEPT ![h] = key \in processed]
             /\ IF r.pc # "raised"
                THEN /\ DigestSlot(h, r.pc, list, i, sent_any, answers)
                     /\ UNCHANGED processed
                ELSE /\ processed' = processed \cup {key}
                     /\ IF CatchesArticleError(r.exc)
                        THEN DigestSlot(h, "answering", list, i + 1, sent_any,
                                        Append(answers, ANSWER_ARTICLE_FAILED))
                        ELSE DigestSlot(h, "done", list, i, sent_any,
                                        Append(answers, ANSWER_LOAD_FAILED))

\* cmd_digest, from the update to the answer that the digest is being prepared
DigestStart(h, user_id, style) ==
    /\ dg_pc[h] = "idle"
    /\ dg_user' = [dg_user EXCEPT ![h] = user_id]
    /\ dg_style' = [dg_style EXCEPT ![h] = style]
    /\ DigestSlot(h, "preparing", <<>>, 0, FALSE, <<ANSWER_PREPARING>>)
    /\ UNCHANGED <<cached_news, pl_exc, pl_hit, pl_stages, pl_again, processed>>
    /\ UNCHANGED nonPipelineVars

\* cmd_digest, from the return of fetch_raw_news_sample (or its raise) to the next
\* suspension
DigestFetched(h, fetched, raw_news_list) ==
    /\ dg_pc[h] = "preparing"
    /\ UNCHANGED <<cached_news, dg_user, dg_style>>
    /\ UNCHANGED nonPipelineVars
    /\ IF ~fetched
       THEN /\ DigestSlot(h, "done", <<>>, 0, FALSE,
                          Append(dg_answers[h], ANSWER_LOAD_FAILED))
            /\ UNCHANGED <<pl_exc, pl_hit, pl_stages, pl_again, processed>>
       ELSE IF FirstOnly(raw_news_list) = <<>>
       THEN /\ DigestSlot(h, "done", <<>>, 0, FALSE, Append(dg_answers[h], ANSWER_NO_NEWS))
            /\ UNCHANGED <<pl_exc, pl_hit, pl_stages, pl_again, processed>>
       ELSE DigestLoop(h, FirstOnly(raw_news_list), 1, FALSE, dg_answers[h])

\* cmd_digest, from the return of message.answer in the except branch on
DigestAnswered(h) ==
    /\ dg_pc[h] = "answering"
    /\ UNCHANGED <<cached_news, dg_user, dg_style>>
    /\ UNCHANGED nonPipelineVars
    /\ DigestLoop(h, dg_list[h], dg_i[h], dg_sent_any[h], dg_answers[h])

\* the dispatcher takes the return of the handler
DigestReturn(h) ==
    /\ dg_pc[h] = "done"
    /\ DigestSlot(h, "idle", <<>>, 0, FALSE, <<>>)
    /\ pl_exc' = [pl_exc EXCEPT ![h] = "none"]
    /\ pl_hit' = [pl_hit EXCEPT ![h] = FALSE]
    /\ pl_stages' = [pl_stages EXCEPT ![h] = <<>>]
    /\ pl_again' = [pl_again EXCEPT ![h] = FALSE]
    /\ UNCHANGED <<cached_news, dg_user, dg_style, processed>>
    /\ UNCHANGED nonPipelineVars

InitPipeline ==
    /\ cached_news = [u \in PipelineUrls |-> NoCached]
    /\ processed = {}
    /\ dg_pc = [h \in Handlers |-> "idle"]
    /\ dg_user = [h \in Handlers |-> 0]
    /\ dg_style = [h \in Handlers |-> "brief"]
    /\ dg_list = [h \in Handlers |-> <<>>]
    /\ dg_i = [h \in Handlers |-> 0]
    /\ dg_sent_any = [h \in Handlers |-> FALSE]
    /\ dg_answers = [h \in Handlers |-> <<>>]
    /\ pl_exc = [h \in Handlers |-> "none"]
    /\ pl_hit = [h \in Handlers |-> FALSE]
    /\ pl_stages = [h \in Handlers |-> <<>>]
    /\ pl_again = [h \in Handlers |-> FALSE]

\* ---------------------------------------------------------------------------
\* Properties of the orchestrator and of the /digest handler
\* ---------------------------------------------------------------------------

\* the process_news_for_user call of handler h has ended (returned or raised)
PipelineCallEnded(h) == dg_pc[h] \in {"answering", "done"} /\ pl_exc[h] # "none"

HasText(answers, answer) == \E k \in 1..Len(answers) : answers[k].text = answer.text

\* C1: a process_news_for_user call that follows an earlier, ended call for the
\* same user, url and style finds the url in the article cache and returns its
\* output (built from the cached fields, with no LLM call) instead of raising
C1_SecondCallServedFromCache ==
    \A h \in Handlers :
        (PipelineCallEnded(h) /\ pl_again[h] /\ pl_exc[h] # "KeyError")
            => (pl_hit[h] /\ pl_exc[h] = "none")

\* C17: an article whose processing raises is answered with the fixed failure
\* text, without any detail of the exception; the loop goes on to the articles
\* that remain, and the handler ends without the load-failure answer of its
\* outer except branch
C17_ArticleFailureIsIsolated ==
    \A h \in Handlers :
        /\ \A k \in 1..Len(dg_answers[h]) : dg_answers[h][k].detail = "none"
        /\ (dg_pc[h] = "answering")
              => /\ pl_exc[h] # "none"
                 /\ dg_answers[h][Len(dg_answers[h])] = ANSWER_ARTICLE_FAILED
        /\ (dg_pc[h] = "done" /\ dg_list[h] # <<>>)
              => /\ dg_i[h] = Len(dg_list[h]) + 1
                 /\ HasText(dg_answers[h], ANSWER_ARTICLE_FAILED)
                 /\ ~HasText(dg_answers[h], ANSWER_LOAD_FAILED)

C17_Witness ==
    \E h \in Handlers :
        /\ dg_pc[h] = "done"
        /\ dg_list[h] # <<>>
        /\ pl_exc[h] = "TypeError"
        /\ dg_answers[h] = <<ANSWER_PREPARING, ANSWER_ARTICLE_FAILED, ANSWER_NOTHING_RELEVANT>>

\* C20: a process_news_for_user call that missed the article cache and has ended
\* has run Parse, Summarize, Tag and Recommend in that order, and then either
\* stopped (Recommend rejected) or gone on to Render and the cache write
C20_StagesRunInOrder ==
    \A h \in Handlers :
        (PipelineCallEnded(h) /\ ~pl_hit[h] /\ pl_exc[h] # "KeyError")
            => /\ Len(pl_stages[h]) >= 4
               /\ SubSeq(pl_stages[h], 1, 4) = <<"parse", "summarize", "tags", "recommend">>

\* C18: in every state the profile get_user_profile returns for a user has at
\* least one preferred tag, which is the sentinel alone when the stored row holds
\* no tag; so has every profile an is_relevant call in progress has read
C18_ProfileNeverEmpty ==
    /\ \A u \in Users :
        /\ ProfileOf(db_users, u).preferred_tags # {}
        /\ (db_users[u] = NoRow \/ db_users[u].preferred_tags = {})
              => ProfileOf(db_users, u).preferred_tags = {ALL_TAG}
    /\ \A c \in Evaluators :
        (r_pc[c] # "idle" /\ r_branch[c] # "no_tags") => r_profile[c].preferred_tags # {}

\* the user disliked the last specific tag: the sentinel is back
C18_Witness ==
    \E u \in Users :
        /\ db_users[u] # NoRow
        /\ db_users[u].blocked_tags # {}
        /\ ProfileOf(db_users, u).preferred_tags = {ALL_TAG}

\* C16: when parse_with_retry ends with the record of the LLM, the dict that run
\* returns carries the title of that record and has a "body" key
C16_RunResultHasTitleAndBody ==
    \A c \in Callers :
        (ParseDone(c) /\ p_path[c] = "llm")
            => /\ "title" \in DOMAIN RunResult(p_ret[c])
               /\ RunResult(p_ret[c]).title = LLM_GOOD.title
               /\ "body" \in DOMAIN RunResult(p_ret[c])

\* ---------------------------------------------------------------------------
\* The record the parser takes out of an LLM response:
\* ParserAgent._call_llm_parser (src/agents/parser_agent.py)
\* ---------------------------------------------------------------------------

\* the first position from i on that holds no whitespace (Len(s) + 1 at the end)
SkipSpace(s, i) == SetMin({j \in i..(Len(s) + 1) : j > Len(s) \/ ~IsSpace(s[j])})

DIGITS == {"0", "1", "2", "3", "4", "5", "6", "7", "8", "9"}

\* json: the position after the string that opens at i, 0 when it does not close
\* (strings without escapes)
JsonStringEnd(s, i) ==
    IF i > Len(s) \/ s[i] # "\"" THEN 0
    ELSE TheOnly({ IF q = {} THEN 0 ELSE SetMin(q) + 1
                   : q \in { {j \in (i + 1)..Len(s) : s[j] = "\""} } })

\* json: the position after the digits that start at i
JsonNumberEnd(s, i) == SetMin({j \in i..(Len(s) + 1) : j > Len(s) \/ s[j] \notin DIGITS})

\* json: the position after the value that starts at i, 0 when there is no
\* well-formed value (objects, strings and unsigned integers)
RECURSIVE JsonValueEnd(_, _)
RECURSIVE JsonMembersEnd(_, _)
JsonValueEnd(s, i) ==
    IF i > Len(s) THEN 0
    ELSE IF s[i] = "\"" THEN JsonStringEnd(s, i)
    ELSE IF s[i] \in DIGITS THEN JsonNumberEnd(s, i)
    ELSE IF s[i] = "{"
    THEN TheOnly({ IF j <= Len(s) /\ s[j] = "}" THEN j + 1 ELSE JsonMembersEnd(s, j)
                   : j \in {SkipSpace(s, i + 1)} })
    ELSE 0

\* json: the position after the "}" of the object whose next member starts at i
JsonMembersEnd(s, i) ==
    TheOnly({
        IF k = 0 \/ SkipSpace(s, k) > Len(s) \/ s[SkipSpace(s, k)] # ":" THEN 0
        ELSE TheOnly({
            IF v = 0 THEN 0
            ELSE TheOnly({
                IF d > Len(s) THEN 0
                ELSE IF s[d] = "}" THEN d + 1
                ELSE IF s[d] = "," THEN JsonMembersEnd(s, SkipSpace(s, d + 1))
                ELSE 0
                : d \in {SkipSpace(s, v)} })
            : v \in {JsonValueEnd(s, SkipSpace(s, SkipSpace(s, k) + 1))} })
        : k \in {JsonStringEnd(s, i)} })

\* json.loads(s) does not raise JSONDecodeError: one value and whitespace around it
JsonIsValid(s) ==
    TheOnly({ e # 0 /\ SkipSpace(s, e) = Len(s) + 1
              : e \in {JsonValueEnd(s, SkipSpace(s, 1))} })

\* the n-th smallest element of a set of numbers
NthOf(K, n) == CHOOSE j \in K : Cardinality({k \in K : k <= j}) = n

\* json.loads(s) of a valid s: the value, written without the whitespace between
\* its tokens (the characters inside strings are kept)
JsonValue(s) ==
    TheOnly({ [n \in 1..Cardinality(K) |-> s[NthOf(K, n)]]
              : K \in { {j \in 1..Len(s) :
                            \/ ~IsSpace(s[j])
                            \/ Cardinality({q \in 1..(j - 1) : s[q] = "\""}) % 2 = 1} } })

FENCE == <<"u0060","u0060","u0060">>

JSON_FENCE == <<"u0060","u0060","u0060","j","s","o","n">>

\* re.search of the fence pattern (JSON_FENCE, \s*, a group from "{" lazily to a
\* "}", \s*, FENCE) with re.DOTALL: the span of the group
\* for a match that starts at p, <<0, 0>> when there is no match at p
FenceMatchAt(s, p) ==
    IF ~StartsAt(s, JSON_FENCE, p) THEN <<0, 0>>
    ELSE TheOnly({
        IF b > Len(s) \/ s[b] # "{" THEN <<0, 0>>
        ELSE TheOnly({ IF closers = {} THEN <<0, 0>> ELSE <<b, SetMin(closers)>>
                       : closers \in { {e \in (b + 1)..Len(s) :
                                          /\ s[e] = "}"
                                          /\ StartsAt(s, FENCE, SkipSpace(s, e + 1))} } })
        : b \in {SkipSpace(s, p + Len(JSON_FENCE))} })

\* the text of group 1 of the leftmost match, <<>> when the pattern does not match
FencedJson(s) ==
    TheOnly({ IF starts = {} THEN <<>>
              ELSE SubSeq(s, FenceMatchAt(s, SetMin(starts))[1],
                             FenceMatchAt(s, SetMin(starts))[2])
              : starts \in { {p \in 1..Len(s) : FenceMatchAt(s, p) # <<0, 0>>} } })

\* the inner loop of the scan: the position at which the braces opened from
\* start on are all closed, 0 when they never are
BalancedEnd(s, start) ==
    TheOnly({ IF ends = {} THEN 0 ELSE SetMin(ends)
              : ends \in { {i \in start..Len(s) :
                              Cardinality({k \in start..i : s[k] = "{"})
                                = Cardinality({k \in start..i : s[k] = "}"})} } })

\* found_jsons: the start indices whose balanced text json.loads accepts
FoundJsons(s) ==
    {start \in 1..Len(s) :
        /\ s[start] = "{"
        /\ BalancedEnd(s, start) # 0
        /\ JsonIsValid(SubSeq(s, start, BalancedEnd(s, start)))}

PickFound_First(found) == SetMin(found)

\* found_jsons[-1]
PickFound(found) == SetMax(found)

\* what _call_llm_parser returns
NoRecord == [found |-> FALSE, value |-> <<>>]

Record(json_str) ==
    IF JsonIsValid(json_str) THEN [found |-> TRUE, value |-> JsonValue(json_str)]
    ELSE NoRecord

\* _call_llm_parser, from the response of call_llm on
ExtractRecord(response) ==
    IF response = LLM_ERROR_SENTINEL THEN NoRecord
    ELSE TheOnly({
        IF fenced # <<>> THEN Record(fenced)
        ELSE TheOnly({
            IF found = {} THEN NoRecord
            ELSE Record(SubSeq(response, PickFound(found),
                                         BalancedEnd(response, PickFound(found))))
            : found \in {FoundJsons(response)} })
        : fenced \in {FencedJson(response)} })

\* the LLM responses the model hands to the extractor: what precedes the record,
\* the record with or without its fence, and what follows it
RECORD_A == <<"{","\"","t","i","t","l","e","\"",":","\"","A","\"","}">>

RECORD_NESTED == <<"{","\"","t","i","t","l","e","\"",":","\"","A","\"",","," ","\"","m","e","t","a","\"",":","{","\"","k","\"",":","\"","v","\"","}","}">>

RECORD_B == <<"{","\"","t","i","t","l","e","\"",":","\"","B","\"","}">>

ResponsePrefixes ==
    { <<>>, <<"H","e","r","e"," ","i","s"," ","t","h","e"," ","r","e","c","o","r","d",":"," ">>, <<"{","}"," ">>, <<"U","s","i","n","g"," ","{","f","i","e","l","d","s","}"," ","a","s"," ","a","s","k","e","d",":","\n">> }

\* (fence: how the record is fenced; records: the well-formed top-level records
\* of the text, from left to right)
ResponseBodies ==
    { [text |-> RECORD_A, fence |-> "none", records |-> <<RECORD_A>>],
      [text |-> RECORD_NESTED, fence |-> "none", records |-> <<RECORD_NESTED>>],
      [text |-> RECORD_A \o <<"\n">> \o RECORD_B, fence |-> "none",
       records |-> <<RECORD_A, RECORD_B>>],
      [text |-> JSON_FENCE \o <<"\n">> \o RECORD_A \o <<"\n">> \o FENCE, fence |-> "json",
       records |-> <<RECORD_A>>],
      [text |-> JSON_FENCE \o <<"\n">> \o RECORD_NESTED \o <<"\n">> \o FENCE, fence |-> "json",
       records |-> <<RECORD_NESTED>>],
      [text |-> FENCE \o <<"\n">> \o RECORD_A \o <<"\n">> \o FENCE, fence |-> "plain",
       records |-> <<RECORD_A>>],
      [text |-> <<"{","\"","t","i","t","l","e","\"",":","\"","A","\"">>, fence |-> "none", records |-> <<>>],
      [text |-> <<"I"," ","c","a","n","n","o","t"," ","p","a","r","s","e"," ","t","h","i","s",".">>, fence |-> "none", records |-> <<>>] }

ResponseSuffixes ==
    { <<>>, <<"\n","H","o","p","e"," ","t","h","i","s"," ","h","e","l","p","s",".">>, <<"\n","N","o","t","e","s",":"," ","{","}">>, <<"\n","O","r"," ","{","\"","t","i","t","l","e","\"",":","\"","B","\"","}"," ","m","a","y","b","e",".">> }

NoResponse == [prefix |-> <<>>, body |-> <<>>, suffix |-> <<>>, fence |-> "none",
               records |-> <<>>, asked |-> FALSE]

\* the text of a response
ResponseText(r) == r.prefix \o r.body \o r.suffix

\* _call_llm_parser, from the response of call_llm to its return
ExtractCall(prefix, body, suffix) ==
    /\ ~ex_response.asked
    /\ ex_response' = [prefix |-> prefix, body |-> body.text, suffix |-> suffix,
                       fence |-> body.fence, records |-> body.records, asked |-> TRUE]
    /\ ex_result' = ExtractRecord(ResponseText(ex_response'))
    /\ UNCHANGED nonExtractVars

\* call_llm has answered "error"
ExtractError ==
    /\ ~ex_response.asked
    /\ ex_response' = [NoResponse EXCEPT !.body = LLM_ERROR_SENTINEL, !.asked = TRUE]
    /\ ex_result' = ExtractRecord(LLM_ERROR_SENTINEL)
    /\ UNCHANGED nonExtractVars

\* parse_with_retry has taken the result: the next attempt asks call_llm again
ExtractTaken ==
    /\ ex_response.asked
    /\ ex_response' = NoResponse
    /\ ex_result' = NoRecord
    /\ UNCHANGED nonExtractVars

InitExtract ==
    /\ ex_response = NoResponse
    /\ ex_result = NoRecord

\* ---------------------------------------------------------------------------
\* Properties of the extractor
\* ---------------------------------------------------------------------------

\* the response has a well-formed record outside the body: the "{}" of the
\* prefix or of the suffix, or the record B of the suffix
HasOutsideRecord(r) ==
    \/ Contains(r.prefix, <<"{","}">>)
    \/ Contains(r.suffix, <<"{","}">>)
    \/ Contains(r.suffix, RECORD_B)

\* C13: from a response with a record in a fenced code block and prose after the
\* block, the extractor returns the value of the fenced record
C13_FencedRecordIsReturned ==
    (ex_response.asked /\ ex_response.fence # "none" /\ ex_response.suffix # <<>>)
        => ex_result = [found |-> TRUE, value |-> JsonValue(ex_response.records[1])]

\* C14: from a response without fence that holds two or more well-formed
\* top-level records, the extractor returns the first of them
C14_FirstRecordIsReturned ==
    (/\ ex_response.asked
     /\ ex_response.fence = "none"
     /\ ~HasOutsideRecord(ex_response)
     /\ Len(ex_response.records) >= 2)
        => ex_result = [found |-> TRUE, value |-> JsonValue(ex_response.records[1])]

\* ---------------------------------------------------------------------------
\* str.split from a position and re.sub of a delimited group, as the agents
\* use them on summaries and messages
\* ---------------------------------------------------------------------------

\* s[from:].split(sep), sep not empty
RECURSIVE SplitFrom(_, _, _)
SplitFrom(s, sep, from) ==
    TheOnly({
        IF hits = {} THEN <<SubSeq(s, from, Len(s))>>
        ELSE TheOnly({ <<SubSeq(s, from, i - 1)>> \o SplitFrom(s, sep, i + Len(sep))
                       : i \in {SetMin(hits)} })
        : hits \in { {i \in from..(Len(s) - Len(sep) + 1) : StartsAt(s, sep, i)} } })

\* the places at which close ends a match of open(.*?)close that starts at i
\* (the group takes no newline); NextMatch: the first match from the position
\* from on, <<start of open, start of close>>, <<0, 0>> when there is none
ClosesFor(s, open, close, i) ==
    {j \in (i + Len(open))..(Len(s) - Len(close) + 1) :
        /\ StartsAt(s, close, j)
        /\ \A k \in (i + Len(open))..(j - 1) : s[k] # "\n"}

NextMatch(s, open, close, from) ==
    TheOnly({
        IF opens = {} THEN <<0, 0>>
        ELSE TheOnly({ <<i, SetMin(ClosesFor(s, open, close, i))>> : i \in {SetMin(opens)} })
        : opens \in { {i \in from..Len(s) :
                        StartsAt(s, open, i) /\ ClosesFor(s, open, close, i) # {}} } })

\* re.sub of the pattern open(.*?)close by pre \1 post
RECURSIVE ReSubFrom(_, _, _, _, _, _)
ReSubFrom(s, open, close, pre, post, from) ==
    TheOnly({
        IF m = <<0, 0>> THEN SubSeq(s, from, Len(s))
        ELSE SubSeq(s, from, m[1] - 1) \o pre \o SubSeq(s, m[1] + Len(open), m[2] - 1) \o post
                \o ReSubFrom(s, open, close, pre, post, m[2] + Len(close))
        : m \in {NextMatch(s, open, close, from)} })

ReSub(s, open, close, pre, post) == ReSubFrom(s, open, close, pre, post, 1)

\* ---------------------------------------------------------------------------
\* AdaptiveSummaryAgent (agents/summarizer_agent.py): the choice of the style
\* ---------------------------------------------------------------------------

\* the values of SummaryStyle
SummaryStyles == {"brief", "points", "detailed"}

\* what a caller may pass as style: a value of SummaryStyle or any other string
RequestedStyles == SummaryStyles \cup {"long"}

MaxSummaries == 1

analytics_keywords == { <<"a","n","a","l","y","s","i","s">>, <<"s","t","u","d","y">>, <<"r","e","s","e","a","r","c","h">>, <<"d","a","t","a">>, <<"t","r","e","n","d">>, <<"m","a","r","k","e","t">> }

interview_keywords == { <<"i","n","t","e","r","v","i","e","w">>, <<"q","&","a">>, <<"q","u","e","s","t","i","o","n">>, <<"a","n","s","w","e","r">>, <<"s","a","y","s",":">>, <<"'","s","a","i","d">> }

press_release_keywords ==
    { <<"a","n","n","o","u","n","c","e","s">>, <<"t","o","d","a","y"," ","a","n","n","o","u","n","c","e","d">>, <<"p","r","e","s","s"," ","r","e","l","e","a","s","e">>, <<"c","o","m","p","a","n","y">>, <<"C","E","O">>, <<"a","c","c","o","r","d","i","n","g"," ","t","o">> }

opinion_keywords ==
    { <<"i","n"," ","m","y"," ","o","p","i","n","i","o","n">>, <<"t","h","i","n","k">>, <<"b","e","l","i","e","v","e">>, <<"p","e","r","s","o","n","a","l","l","y">>, <<"v","i","e","w">>, <<"p","e","r","s","p","e","c","t","i","v","e">> }

NEWS_BRIEF_BELOW == 500

\* any(keyword in text_lower for keyword in keywords)
AnyKeyword(text_lower, keywords) == \E keyword \in keywords : Contains(text_lower, keyword)

\* _classify_article_type
ClassifyArticleType(text) ==
    TheOnly({
        IF AnyKeyword(text_lower, analytics_keywords) THEN "analytics"
        ELSE IF AnyKeyword(text_lower, interview_keywords) THEN "interview"
        ELSE IF AnyKeyword(text_lower, press_release_keywords) THEN "press_release"
        ELSE IF AnyKeyword(text_lower, opinion_keywords) THEN "opinion"
        ELSE IF Len(text) < NEWS_BRIEF_BELOW THEN "news_brief"
        ELSE "unknown"
        : text_lower \in {SubSeq(Lower(text), 1, Len(text))} })

tech_interests == {"technology", "programming", "ai", "software", "science", "technical"}

beginner_interests == {"for beginners", "intro", "basic", "simple", "easy"}

\* _determine_audience, from the preferred_tags of the profile
DetermineAudience(preferred_tags) ==
    IF tech_interests \cap preferred_tags # {} THEN "expert"
    ELSE IF beginner_interests \cap preferred_tags # {} THEN "beginner"
    ELSE "neutral"

EXPERT_LENGTH_ABOVE == 1000

BRIEF_LENGTH_BELOW == 300

SelectStyleByContext_InterviewFirst(context) ==
    IF context.article_type = "interview" THEN "points"
    ELSE IF context.audience = "expert" /\ context.original_length > EXPERT_LENGTH_ABOVE
        THEN "detailed"
    ELSE IF context.original_length < BRIEF_LENGTH_BELOW THEN "brief"
    ELSE context.summary_style

\* _select_style_by_context
SelectStyleByContext(context) ==
    IF context.audience = "expert" /\ context.original_length > EXPERT_LENGTH_ABOVE
        THEN "detailed"
    ELSE IF context.article_type = "interview" THEN "points"
    ELSE IF context.original_length < BRIEF_LENGTH_BELOW THEN "brief"
    ELSE context.summary_style

\* SummaryStyle(style) if style is a value of SummaryStyle, else SummaryStyle.BRIEF
CoerceStyle(style) == IF style \in SummaryStyles THEN style ELSE "brief"

\* the articles handed to the agent: an opening sentence, then filler up to a length
Filler(n) == [i \in 1..n |-> "x"]

OPENING_ANALYTICS == <<"M","a","r","k","e","t"," ","d","a","t","a"," ","s","h","o","w"," ","a"," ","n","e","w"," ","t","r","e","n","d",".">>

OPENING_PLAIN == <<"R","a","i","n"," ","f","e","l","l"," ","o","n"," ","t","h","e"," ","t","o","w","n",".">>

Openings ==
    { OPENING_ANALYTICS,
      <<"A","n"," ","I","N","T","E","R","V","I","E","W"," ","w","i","t","h"," ","t","h","e"," ","m","a","y","o","r",".">>,
      <<"A","n"," ","i","n","t","e","r","v","i","e","w"," ","a","b","o","u","t"," ","m","a","r","k","e","t"," ","d","a","t","a",".">>,
      <<"T","h","e"," ","f","i","r","m"," ","a","n","n","o","u","n","c","e","s"," ","a"," ","n","e","w"," ","p","l","a","n","t",".">>,
      <<"I"," ","t","h","i","n","k"," ","t","h","e"," ","p","l","a","n"," ","i","s"," ","w","r","o","n","g",".">>,
      OPENING_PLAIN }

TextLengths == {299, 300, 1001}

SummaryText(opening, length) == opening \o Filler(length - Len(opening))

SummaryTexts ==
    { SummaryText(opening, length) : opening \in Openings, length \in TextLengths }
        \cup { SummaryText(OPENING_ANALYTICS, 4000), SummaryText(OPENING_ANALYTICS, 1000),
               SummaryText(OPENING_PLAIN, 499), SummaryText(OPENING_PLAIN, 500) }

\* the preferred_tags of the profiles handed to the agent ({}: no profile, or
\* a profile without preferred_tags)
SummaryProfiles == { {}, {"sport"}, {"ai", "sport"}, {"intro"}, {"easy", "science"} }

NoContext == [article_type |-> "unknown", audience |-> "neutral", original_length |-> 0,
              summary_style |-> "brief", style |-> "brief"]

\* the output_format values handed to the agent (pdf: a value it does not know)
OutputFormats == {"markdown", "plain_text", "html", "pdf"}

SOURCE_SENTENCES == <<"R","a","t","e","s"," ","r","o","s","e","."," ","S","h","a","r","e","s"," ","f","e","l","l","."," ","B","o","n","d","s"," ","h","e","l","d","."," ","G","o","l","d"," ","r","o","s","e","."," ","O","i","l">>

\* the texts of the calls whose summary is followed to the return: one of more
\* than three sentences, one of more than 200 characters, one short
VerifiedTexts == {SOURCE_SENTENCES, SummaryText(OPENING_PLAIN, 299), OPENING_PLAIN}

\* the calls of generate_adaptive_summary (text, preferred_tags, style,
\* output_format): every text, profile and style in the default format, and
\* the texts above in every format
SummaryRequests ==
    { <<text, preferred_tags, style, "markdown">> :
        text \in SummaryTexts, preferred_tags \in SummaryProfiles, style \in RequestedStyles }
    \cup { <<text, {}, "brief", output_format>> :
            text \in VerifiedTexts, output_format \in OutputFormats }

\* what the LLM client can do with the generation request
GenerationOutcomes ==
    { [kind |-> "reply", content |-> <<"*","*","R","a","t","e","s","*","*"," ","r","i","s","e"," ","*","f","a","s","t","*",".","\n","M","o","r","e"," ","s","o","o","n",".">>],
      [kind |-> "reply", content |-> <<"R","a","t","e","s"," ","r","i","s","e",".">>],
      LLM_HTTP_ERROR, LLM_EXCEPTION }

\* what the LLM client can do with the verification request
VerificationOutcomes ==
    { [kind |-> "reply", content |-> <<"v","a","l","i","d">>],
      [kind |-> "reply", content |-> <<"I","n","v","a","l","i","d",":"," ","t","h","e"," ","s","u","m","m","a","r","y"," ","a","d","d","s"," ","a"," ","d","a","t","e",".">>],
      [kind |-> "reply", content |-> <<"n","o">>],
      [kind |-> "reply", content |-> <<>>],
      LLM_HTTP_ERROR }

\* generate_adaptive_summary: the summary after the generation call, the
\* response or the sentences cut from the text when call_llm gave "error"
GenerationResponse(response, text) ==
    IF response = LLM_ERROR_SENTINEL
    THEN TheOnly({
            IF Len(sentences) > 3 THEN Join(SubSeq(sentences, 1, 3), <<"."," ">>) \o <<".">>
            ELSE IF Len(text) > 200 THEN Take(text, 200) \o <<".",".",".">>
            ELSE text
            : sentences \in {Split(text, <<".">>)} })
    ELSE response

\* _verify_facts, on the response of call_llm
VerifyFacts(response) == response # <<>> /\ Contains(Lower(response), <<"v","a","l","i","d">>)

\* a variant of AcceptWithWarning that withholds a summary that failed the check
AcceptWithWarning_Withhold(response, is_valid) == IF is_valid THEN response ELSE <<>>

\* generate_adaptive_summary: `if not is_valid: logger.warning(...)`, the
\* summary that goes on to the formatting
AcceptWithWarning(response, is_valid) == response

\* _apply_format
ApplyFormat(summary, format_type) ==
    IF format_type = "markdown" THEN summary
    ELSE IF format_type = "plain_text"
    THEN TheOnly({ ReSub(no_bold, <<"*">>, <<"*">>, <<>>, <<>>)
                   : no_bold \in {ReSub(summary, <<"*","*">>, <<"*","*">>, <<>>, <<>>)} })
    ELSE IF format_type = "html"
    THEN TheOnly({
            TheOnly({ Join(lines, <<"<","b","r",">">>)
                      : lines \in { SplitFrom(italic, <<"\n">>, 1)
                                    : italic \in {ReSub(bold, <<"*">>, <<"*">>, <<"<","e","m",">">>, <<"<","/","e","m",">">>)} } })
            : bold \in {ReSub(summary, <<"*","*">>, <<"*","*">>, <<"<","s","t","r","o","n","g",">">>, <<"<","/","s","t","r","o","n","g",">">>)} })
    ELSE summary

TEXT_UNAVAILABLE == <<"T","e","x","t"," ","u","n","a","v","a","i","l","a","b","l","e"," ","f","o","r"," ","s","u","m","m","a","r","i","z","a","t","i","o","n",".">>

NoCalls == [generation |-> 0, verification |-> 0]

\* generate_adaptive_summary up to its first await, the generation call; the
\* style is selected (style: the argument of the call, kept beside the context)
SummarizeCall(text, preferred_tags, style, output_format) ==
    /\ su_pc = "idle"
    /\ total_summaries < MaxSummaries
    /\ total_summaries' = total_summaries + 1
    /\ su_context' = [article_type |-> ClassifyArticleType(text),
                      audience |-> DetermineAudience(preferred_tags),
                      original_length |-> Len(text),
                      summary_style |-> CoerceStyle(style),
                      style |-> style]
    /\ su_selected' = SelectStyleByContext(su_context')
    /\ su_text' = text
    /\ su_format' = output_format
    /\ su_pc' = "selected"
    /\ UNCHANGED <<style_distribution, su_response, su_is_valid, su_calls, su_returned,
                   nonSummarizeVars>>

\* generate_adaptive_summary of an empty or blank text: the fixed answer
SummarizeEmpty(text) ==
    /\ su_pc = "idle"
    /\ Strip(text) = <<>>
    /\ su_pc' = "done"
    /\ su_text' = text
    /\ su_returned' = TEXT_UNAVAILABLE
    /\ UNCHANGED <<su_context, su_selected, total_summaries, style_distribution, su_format,
                   su_response, su_is_valid, su_calls, nonSummarizeVars>>

\* generate_adaptive_summary, from the return of the generation call to the
\* await of the verification call
SummarizeGenerated(outcome) ==
    /\ su_pc = "selected"
    /\ su_response' = GenerationResponse(call_llm(outcome), su_text)
    /\ su_calls' = [su_calls EXCEPT !.generation = @ + 1]
    /\ su_pc' = "verifying"
    /\ UNCHANGED <<su_context, su_selected, total_summaries, style_distribution, su_text,
                   su_format, su_is_valid, su_returned, nonSummarizeVars>>

\* generate_adaptive_summary, from the return of the verification call to its
\* own return
SummarizeVerified(outcome) ==
    /\ su_pc = "verifying"
    /\ su_is_valid' = VerifyFacts(call_llm(outcome))
    /\ su_calls' = [su_calls EXCEPT !.verification = @ + 1]
    /\ su_returned' = ApplyFormat(AcceptWithWarning(su_response, su_is_valid'), su_format)
    /\ style_distribution' =
            [style_distribution EXCEPT ![su_selected] = style_distribution[su_selected] + 1]
    /\ su_pc' = "done"
    /\ UNCHANGED <<su_context, su_selected, total_summaries, su_text, su_format,
                   su_response, nonSummarizeVars>>

\* the caller takes the summary, the context of the call ends
SummarizeReturn ==
    /\ su_pc = "done"
    /\ su_pc' = "idle"
    /\ su_context' = NoContext
    /\ su_selected' = "brief"
    /\ su_text' = <<>>
    /\ su_format' = "markdown"
    /\ su_response' = <<>>
    /\ su_is_valid' = FALSE
    /\ su_calls' = NoCalls
    /\ su_returned' = <<>>
    /\ UNCHANGED <<total_summaries, style_distribution, nonSummarizeVars>>

InitSummarize ==
    /\ su_pc = "idle"
    /\ su_context = NoContext
    /\ su_selected = "brief"
    /\ total_summaries = 0
    /\ style_distribution = [s \in SummaryStyles |-> 0]
    /\ su_text = <<>>
    /\ su_format = "markdown"
    /\ su_response = <<>>
    /\ su_is_valid = FALSE
    /\ su_calls = NoCalls
    /\ su_returned = <<>>

\* ---------------------------------------------------------------------------
\* Properties of the style selection
\* ---------------------------------------------------------------------------

\* C15: the selected style follows the priority: expert audience and a body of
\* more than 1000 characters give detailed; otherwise an interview gives points;
\* otherwise a body of fewer than 300 characters gives brief; otherwise the style
\* asked for is kept; so an analytics body of 4000 characters and an expert
\* profile give detailed when brief was asked for
C15_StyleFollowsPriority ==
    (su_pc = "selected" /\ su_context.style \in SummaryStyles) =>
        /\ (su_context.audience = "expert" /\ su_context.original_length > 1000)
                => su_selected = "detailed"
        /\ (/\ ~(su_context.audience = "expert" /\ su_context.original_length > 1000)
            /\ su_context.article_type = "interview")
                => su_selected = "points"
        /\ (/\ ~(su_context.audience = "expert" /\ su_context.original_length > 1000)
            /\ su_context.article_type # "interview"
            /\ su_context.original_length < 300)
                => su_selected = "brief"
        /\ (/\ ~(su_context.audience = "expert" /\ su_context.original_length > 1000)
            /\ su_context.article_type # "interview"
            /\ su_context.original_length >= 300)
                => su_selected = su_context.style
        /\ (/\ su_context.audience = "expert"
            /\ su_context.article_type = "analytics"
            /\ su_context.original_length = 4000)
                => su_selected = "detailed"

\* an interview of more than 1000 characters for an expert, points asked for:
\* the first rule wins over the second
C15_Witness ==
    /\ su_pc = "selected"
    /\ su_context.audience = "expert"
    /\ su_context.article_type = "interview"
    /\ su_context.original_length = 1001
    /\ su_context.style = "points"
    /\ su_selected = "detailed"

\* ---------------------------------------------------------------------------
\* SemanticTaggingAgent (agents/tags_agent.py)
\* ---------------------------------------------------------------------------

MaxTaggings == 2

max_tags == 5

\* str.replace(a, b) for one-character a and b
ReplaceChar(s, a, b) == [i \in 1..Len(s) |-> IF s[i] = a THEN b ELSE s[i]]

\* set(str.split()): the maximal runs without whitespace
WordsOf(s) ==
    UNION { { SubSeq(s, i, j) : j \in { j \in i..Len(s) :
                                          /\ \A k \in i..j : ~IsSpace(s[k])
                                          /\ (i = 1 \/ IsSpace(s[i - 1]))
                                          /\ (j = Len(s) \/ IsSpace(s[j + 1])) } }
            : i \in 1..Len(s) }

parent_tags ==
    ( <<"l","l","m">> :> <<"u0438","u0441","u043A","u0443","u0441","u0441","u0442","u0432","u0435","u043D","u043D","u044B","u0439","_","u0438","u043D","u0442","u0435","u043B","u043B","u0435","u043A","u0442">> ) @@
    ( <<"u043D","u0435","u0439","u0440","u043E","u0441","u0435","u0442","u044C">> :> <<"u0438","u0441","u043A","u0443","u0441","u0441","u0442","u0432","u0435","u043D","u043D","u044B","u0439","_","u0438","u043D","u0442","u0435","u043B","u043B","u0435","u043A","u0442">> ) @@
    ( <<"u0438","u0441","u043A","u0443","u0441","u0441","u0442","u0432","u0435","u043D","u043D","u044B","u0439","_","u0438","u043D","u0442","u0435","u043B","u043B","u0435","u043A","u0442">> :> <<"u0442","u0435","u0445","u043D","u043E","u043B","u043E","u0433","u0438","u0438">> ) @@
    ( <<"u0441","u0442","u0430","u0440","u0442","u0430","u043F">> :> <<"u0431","u0438","u0437","u043D","u0435","u0441">> ) @@
    ( <<"u0432","u0435","u043D","u0447","u0443","u0440">> :> <<"u0431","u0438","u0437","u043D","u0435","u0441">> ) @@
    ( <<"u0438","u043D","u0432","u0435","u0441","u0442","u0438","u0446","u0438","u0438">> :> <<"u0431","u0438","u0437","u043D","u0435","u0441">> ) @@
    ( <<"u043A","u0440","u0438","u043F","u0442","u043E","u0432","u0430","u043B","u044E","u0442","u0430">> :> <<"u0444","u0438","u043D","u0430","u043D","u0441","u044B">> ) @@
    ( <<"u0431","u043B","u043E","u043A","u0447","u0435","u0439","u043D">> :> <<"u0442","u0435","u0445","u043D","u043E","u043B","u043E","u0433","u0438","u0438">> ) @@
    ( <<"d","a","t","a","_","s","c","i","e","n","c","e">> :> <<"u043D","u0430","u0443","u043A","u0430">> ) @@
    ( <<"m","a","c","h","i","n","e","_","l","e","a","r","n","i","n","g">> :> <<"u0438","u0441","u043A","u0443","u0441","u0441","u0442","u0432","u0435","u043D","u043D","u044B","u0439","_","u0438","u043D","u0442","u0435","u043B","u043B","u0435","u043A","u0442">> ) @@
    ( <<"d","e","e","p","_","l","e","a","r","n","i","n","g">> :> <<"u0438","u0441","u043A","u0443","u0441","u0441","u0442","u0432","u0435","u043D","u043D","u044B","u0439","_","u0438","u043D","u0442","u0435","u043B","u043B","u0435","u043A","u0442">> )

fruit_contexts ==
    { <<"f","r","u","i","t">>, <<"f","o","o","d">>, <<"e","a","t">>, <<"h","e","a","l","t","h","y">>, <<"v","i","t","a","m","i","n">>, <<"d","i","e","t">>, <<"o","r","c","h","a","r","d">>, <<"t","r","e","e">>, <<"s","w","e","e","t">> }

company_contexts ==
    { <<"c","o","m","p","a","n","y">>, <<"t","e","c","h">>, <<"s","t","o","c","k">>, <<"i","p","h","o","n","e">>, <<"m","a","c">>, <<"s","t","o","r","e">>, <<"i","n","c">>, <<"r","e","v","e","n","u","e">>, <<"c","e","o">> }

APPLE_INC == <<"a","p","p","l","e","_","i","n","c">>

FRUITS == <<"u0444","u0440","u0443","u043A","u0442","u044B">>

\* sum(1 for term in terms if term in context_lower)
Matches(terms, context_lower) == Cardinality({term \in terms : Contains(context_lower, term)})

\* _contextual_disambiguation
ContextualDisambiguation(word, content_context) ==
    TheOnly({
        IF counts[2] > counts[1] THEN APPLE_INC
        ELSE IF counts[1] > counts[2] THEN FRUITS
        ELSE ReplaceChar(Lower(word), " ", "_")
        : counts \in { <<Matches(fruit_contexts, context_lower),
                         Matches(company_contexts, context_lower)>>
                       : context_lower \in {SubSeq(Lower(content_context), 1, Len(content_context))} } })

\* the elements of a list
TagSet(tags) == {tags[i] : i \in 1..Len(tags)}

\* _add_parent_tags before list(): the set all_tags
AddParentTags(tags) ==
    TagSet(tags) \cup {parent_tags[tag] : tag \in TagSet(tags) \cap DOMAIN parent_tags}

\* one enumeration of a set
RECURSIVE Enumerate(_)
Enumerate(S) ==
    IF S = {} THEN <<>>
    ELSE TheOnly({ <<x>> \o Enumerate(S \ {x}) : x \in {CHOOSE y \in S : TRUE} })

\* list(all_tags): the order is that of the hash table of the set, which changes
\* from process to process; the orders drawn are the rotations of one enumeration
ListOfSet(S, k) ==
    TheOnly({ [i \in 1..Len(e) |-> e[((i + k - 1) % Len(e)) + 1]] : e \in {Enumerate(S)} })

semantic_pairs ==
    ( <<"u0438","u0441","u043A","u0443","u0441","u0441","u0442","u0432","u0435","u043D","u043D","u044B","u0439","_","u0438","u043D","u0442","u0435","u043B","u043B","u0435","u043A","u0442">> :> { <<"a","i">>, <<"u043C","u043E","u0437","u0433">>, <<"u043D","u0435","u0439","u0440","u043E","u0441","u0435","u0442","u044C">>, <<"u0438","u043D","u0442","u0435","u043B","u043B","u0435","u043A","u0442">> } ) @@
    ( <<"u0431","u0438","u0437","u043D","u0435","u0441">> :> { <<"u043A","u043E","u043C","u043F","u0430","u043D","u0438","u044F">>, <<"u0434","u0435","u043D","u044C","u0433","u0438">>, <<"u043F","u0440","u0438","u0431","u044B","u043B","u044C">>, <<"u0440","u044B","u043D","u043E","u043A">> } ) @@
    ( <<"u0442","u0435","u0445","u043D","u043E","u043B","u043E","u0433","u0438","u0438">> :> { <<"u043A","u043E","u043C","u043F","u044C","u044E","u0442","u0435","u0440">>, <<"u0438","u043D","u0442","u0435","u0440","u043D","u0435","u0442">>, <<"u043F","u0440","u043E","u0433","u0440","u0430","u043C","u043C","u0430">>, <<"u0438","u043D","u043D","u043E","u0432","u0430","u0446","u0438","u0438">> } )

\* _has_semantic_connection
HasSemanticConnection(content, tag) ==
    \/ WordsOf(content) \cap WordsOf(tag) # {}
    \/ \E main_term \in DOMAIN semantic_pairs :
            /\ main_term = tag
            /\ \E term \in semantic_pairs[main_term] : Contains(content, term)

\* the test of _validate_via_embeddings on one tag
IsValidated(content_lower, tag) ==
    TheOnly({ Contains(content_lower, tag_normalized)
                \/ HasSemanticConnection(content_lower, tag_normalized)
              : tag_normalized \in {SubSeq(Lower(ReplaceChar(tag, "_", " ")), 1, Len(tag))} })

\* _validate_via_embeddings
ValidateViaEmbeddings(content, tags) ==
    TheOnly({ SelectSeq(tags, LAMBDA tag : IsValidated(content_lower, tag))
              : content_lower \in {SubSeq(Lower(content), 1, Len(content))} })

\* tag.strip().lower().replace(" ", "_")
NormalizeTag(tag) == ReplaceChar(Lower(Strip(tag)), " ", "_")

\* _normalize_and_limit_tags
NormalizeAndLimitTags(tags) ==
    TheOnly({ Take(SelectSeq(normalized, LAMBDA tag : tag # <<>>), max_tags)
              : normalized \in { [i \in 1..Len(kept) |-> NormalizeTag(kept[i])]
                                 : kept \in {SelectSeq(tags, LAMBDA tag : Strip(tag) # <<>>)} } })

tech_terms ==
    << <<"u0438","u0441","u043A","u0443","u0441","u0441","u0442","u0432","u0435","u043D","u043D","u044B","u0439","_","u0438","u043D","u0442","u0435","u043B","u043B","u0435","u043A","u0442">>, <<"u043C","u0430","u0448","u0438","u043D","u043D","u043E","u0435","_","u043E","u0431","u0443","u0447","u0435","u043D","u0438","u0435">>, <<"d","a","t","a">>, <<"a","i">>, <<"u0431","u043B","u043E","u043A","u0447","u0435","u0439","u043D">>, <<"u043A","u0440","u0438","u043F","u0442","u043E","u0432","u0430","u043B","u044E","u0442","u0430">> >>

biz_terms == << <<"u0431","u0438","u0437","u043D","u0435","u0441">>, <<"u0441","u0442","u0430","u0440","u0442","u0430","u043F">>, <<"u0438","u043D","u0432","u0435","u0441","u0442","u0438","u0446","u0438","u0438">>, <<"u0440","u044B","u043D","u043E","u043A">>, <<"u043A","u043E","u043C","u043F","u0430","u043D","u0438","u044F">> >>

\* _extract_basic_tags
ExtractBasicTags(content) ==
    TheOnly({ Take(SelectSeq(tech_terms \o biz_terms,
                             LAMBDA term : Contains(content_lower, term)), 5)
              : content_lower \in {SubSeq(Lower(content), 1, Len(content))} })

\* what generate_tags_with_enhancements returns through run: category and tags
TagResult(category, tags) == [category |-> category, tags |-> tags]

UNKNOWN_RESULT == TagResult("unknown", <<>>)

\* the summaries handed to the agent
SUMMARY_APPLE_RU == <<"u041A","u043E","u043C","u043F","u0430","u043D","u0438","u044F"," ","A","p","p","l","e"," ","u043F","u0440","u0435","u0434","u0441","u0442","u0430","u0432","u0438","u043B","u0430"," ","u043D","u043E","u0432","u044B","u0439"," ","u0447","u0438","u043F">>

SUMMARY_APPLE_COMPANY == <<"A","p","p","l","e"," ","c","o","m","p","a","n","y"," ","s","t","o","c","k"," ","a","n","d"," ","i","p","h","o","n","e"," ","r","e","v","e","n","u","e">>

SUMMARY_APPLE_FRUIT == <<"A"," ","s","w","e","e","t"," ","a","p","p","l","e"," ","i","s"," ","a"," ","h","e","a","l","t","h","y"," ","f","r","u","i","t">>

SUMMARY_STARTUP == <<"l","l","m"," ","u0441","u0442","u0430","u0440","u0442","u0430","u043F"," ","u0432","u0435","u043D","u0447","u0443","u0440"," ","u0438","u043D","u0432","u0435","u0441","u0442","u0438","u0446","u0438","u0438"," ","u0431","u043B","u043E","u043A","u0447","u0435","u0439","u043D",":"," ","u0431","u0438","u0437","u043D","u0435","u0441"," ","u0438"," ","u0442","u0435","u0445","u043D","u043E","u043B","u043E","u0433","u0438","u0438",","," ","u0440","u044B","u043D","u043E","u043A"," ","d","a","t","a">>

TagSummaries ==
    { SUMMARY_APPLE_RU, SUMMARY_APPLE_COMPANY, SUMMARY_APPLE_FRUIT, SUMMARY_STARTUP, <<" "," ">> }

UserTagLists == { <<>>, << <<"u0422","u0435","u0445","u043D","u043E","u043B","u043E","u0433","u0438","u0438">> >> }

\* what call_llm answers: the sentinel, a text without braces, a text whose
\* braces hold no JSON, or a record with category and tags
TagOutcomes ==
    { [kind |-> "error", category |-> "none", tags |-> <<>>],
      [kind |-> "no_json", category |-> "none", tags |-> <<>>],
      [kind |-> "bad_json", category |-> "none", tags |-> <<>>],
      [kind |-> "record", category |-> "technology", tags |-> << <<"A","p","p","l","e">> >>],
      [kind |-> "record", category |-> "business",
       tags |-> << <<"l","l","m">>, <<"u0441","u0442","u0430","u0440","u0442","u0430","u043F">>, <<"u0432","u0435","u043D","u0447","u0443","u0440">>, <<"u0438","u043D","u0432","u0435","u0441","u0442","u0438","u0446","u0438","u0438">>, <<"u0431","u043B","u043E","u043A","u0447","u0435","u0439","u043D">> >>],
      [kind |-> "record", category |-> "technology",
       tags |-> << <<"G","P","T","-","4"," ","T","u","r","b","o">>, <<" ","A","I"," ">>, <<" "," "," ">>, <<"a","i">> >>] }

\* the orders of list(set) drawn for one call
ListOrders == 2

NoTagCache == [key \in {} |-> UNKNOWN_RESULT]

NoFrequency == [tag \in {} |-> 0]

NoMetrics == [total_taggings |-> 0, disambiguation_attempts |-> 0, embedding_validations |-> 0]

\* tag_usage_frequency[tag] += 1 for the tags of a set
CountUsage(frequency, tags) ==
    [tag \in DOMAIN frequency \cup tags |->
        (IF tag \in DOMAIN frequency THEN frequency[tag] ELSE 0)
        + (IF tag \in tags THEN 1 ELSE 0)]

\* the call ends on path with result
TagDone(path, result) ==
    /\ tg_pc' = "done"
    /\ tg_path' = path
    /\ tg_result' = result

\* generate_tags_with_enhancements up to the await of call_llm
TagCall(summary, user_tags) ==
    /\ tg_pc = "idle"
    /\ tg_summary' = summary
    /\ tg_user_tags' = user_tags
    /\ UNCHANGED <<tg_normalized, tg_disambiguated, llm_call_cache, tag_usage_frequency>>
    /\ IF Strip(summary) = <<>>
       THEN /\ TagDone("blank", UNKNOWN_RESULT)
            /\ UNCHANGED tag_metrics
       ELSE /\ tag_metrics.total_taggings < MaxTaggings
            /\ tag_metrics' = [tag_metrics EXCEPT !.total_taggings = @ + 1]
            /\ IF <<summary, user_tags>> \in DOMAIN llm_call_cache
               THEN TagDone("hit", llm_call_cache[<<summary, user_tags>>])
               ELSE /\ tg_pc' = "asked"
                    /\ UNCHANGED <<tg_path, tg_result>>
    /\ UNCHANGED nonTagsVars

\* the result is stored in llm_call_cache
CacheTagResult(result) ==
    llm_call_cache' =
        [key \in DOMAIN llm_call_cache \cup {<<tg_summary, tg_user_tags>>} |->
            IF key = <<tg_summary, tg_user_tags>> THEN result ELSE llm_call_cache[key]]

\* generate_tags_with_enhancements from the response of call_llm on: the
\* keyword fallback
TagLLMError(outcome) ==
    /\ tg_pc = "asked"
    /\ outcome.kind = "error"
    /\ \E result \in {TagResult("general", NormalizeAndLimitTags(ExtractBasicTags(tg_summary)))} :
            /\ TagDone("fallback", result)
            /\ CacheTagResult(result)
    /\ UNCHANGED <<tg_summary, tg_user_tags, tg_normalized, tg_disambiguated,
                   tag_usage_frequency, tag_metrics, nonTagsVars>>

\* ... a response without a record in it
TagLLMUnparsable(outcome) ==
    /\ tg_pc = "asked"
    /\ outcome.kind \in {"no_json", "bad_json"}
    /\ TagDone(outcome.kind, UNKNOWN_RESULT)
    /\ CacheTagResult(UNKNOWN_RESULT)
    /\ UNCHANGED <<tg_summary, tg_user_tags, tg_normalized, tg_disambiguated,
                   tag_usage_frequency, tag_metrics, nonTagsVars>>

\* ... a response with a record: user tags, normalization, disambiguation,
\* parent tags, validation, usage count (the proposals to the taxonomy, which
\* start at a usage of 5, are in the section on the taxonomy below)
TagLLMRecord(outcome, k) ==
    /\ tg_pc = "asked"
    /\ outcome.kind = "record"
    /\ tg_normalized' = NormalizeAndLimitTags(outcome.tags \o tg_user_tags)
    /\ tg_disambiguated' =
            [i \in 1..Len(tg_normalized') |->
                ContextualDisambiguation(tg_normalized'[i], tg_summary)]
    /\ \E all_tags \in {AddParentTags(tg_disambiguated')} :
            /\ k < Cardinality(all_tags) \/ k = 0
            /\ \E validated_tags \in {ValidateViaEmbeddings(tg_summary, ListOfSet(all_tags, k))} :
                    /\ TagDone("llm", TagResult(outcome.category, validated_tags))
                    /\ CacheTagResult(TagResult(outcome.category, validated_tags))
                    /\ tag_usage_frequency' =
                            CountUsage(tag_usage_frequency, TagSet(validated_tags))
    /\ tag_metrics' =
            [tag_metrics EXCEPT
                !.disambiguation_attempts = @ + Len(tg_normalized'),
                !.embedding_validations = @ + 1]
    /\ UNCHANGED <<tg_summary, tg_user_tags, nonTagsVars>>

\* run returns category and tags of the result
TagReturn ==
    /\ tg_pc = "done"
    /\ tg_pc' = "idle"
    /\ tg_summary' = <<>>
    /\ tg_user_tags' = <<>>
    /\ tg_path' = "none"
    /\ tg_normalized' = <<>>
    /\ tg_disambiguated' = <<>>
    /\ tg_result' = UNKNOWN_RESULT
    /\ UNCHANGED <<llm_call_cache, tag_usage_frequency, tag_metrics, nonTagsVars>>

InitTags ==
    /\ tg_pc = "idle"
    /\ tg_summary = <<>>
    /\ tg_user_tags = <<>>
    /\ tg_path = "none"
    /\ tg_normalized = <<>>
    /\ tg_disambiguated = <<>>
    /\ tg_result = UNKNOWN_RESULT
    /\ llm_call_cache = NoTagCache
    /\ tag_usage_frequency = NoFrequency
    /\ tag_metrics = NoMetrics

\* ---------------------------------------------------------------------------
\* Properties of the tagging agent
\* ---------------------------------------------------------------------------

\* the characters of ^[a-z0-9_]+$
NormalFormChars == TagSet(ASCII_LOWER) \cup DIGITS \cup {"_"}

InNormalForm(tag) == tag # <<>> /\ \A i \in 1..Len(tag) : tag[i] \in NormalFormChars

\* C10: on every path the returned list holds at most 5 tags and no tag twice
C10_AtMostFiveDistinctTags ==
    tg_pc = "done" =>
        /\ Len(tg_result.tags) <= 5
        /\ \A i, j \in 1..Len(tg_result.tags) :
                tg_result.tags[i] = tg_result.tags[j] => i = j

\* C11: every normalized tag, and so every returned tag, is non-empty and made
\* of the characters a-z, 0-9 and underscore only
C11_TagsInNormalForm ==
    tg_pc = "done" =>
        /\ \A i \in 1..Len(tg_normalized) : InNormalForm(tg_normalized[i])
        /\ \A i \in 1..Len(tg_result.tags) : InNormalForm(tg_result.tags[i])

\* C12: for a summary with the Russian company-context word and
\* no fruit-context word, every disambiguated tag is apple_inc
C12_RussianCompanyContextCounts ==
    (/\ tg_pc = "done"
     /\ tg_path = "llm"
     /\ Contains(Lower(tg_summary), <<"u043A","u043E","u043C","u043F","u0430","u043D","u0438","u044F">>)
     /\ Matches(fruit_contexts, Lower(tg_summary)) = 0) =>
        \A i \in 1..Len(tg_disambiguated) : tg_disambiguated[i] = APPLE_INC

\* ---------------------------------------------------------------------------
\* MultimodalDeliveryAgent (agents/render_agent.py)
\* ---------------------------------------------------------------------------

MaxRenders == 1

\* the Telegram message limit
max_length == 4096

TELEGRAM_CUT == 4090

CONTINUED == <<".",".","."," ","(","c","o","n","t","i","n","u","e","d",")">>

MOBILE_SUMMARY_ABOVE == 300

MOBILE_SUMMARY_CUT == 250

FRIENDLY_WINDOW == 20

\* str.upper() on one character
UpperChar(c) ==
    IF \E i \in 1..Len(LOWER_CHARS) : LOWER_CHARS[i] = c
    THEN UPPER_CHARS[CHOOSE i \in 1..Len(LOWER_CHARS) : LOWER_CHARS[i] = c]
    ELSE c

IsLetter(c) == \E i \in 1..Len(LOWER_CHARS) : LOWER_CHARS[i] = c \/ UPPER_CHARS[i] = c

\* str.title()
Title(s) ==
    [i \in 1..Len(s) |->
        IF i = 1 \/ ~IsLetter(s[i - 1]) THEN UpperChar(s[i]) ELSE LowerChar(s[i])]

category_emojis ==
    ( <<"t","e","c","h","n","o","l","o","g","y">> :> << <<"u1F4BB">>, <<"u1F4F1">>, <<"u1F916">>, <<"u1F517">> >> ) @@
    ( <<"b","u","s","i","n","e","s","s">> :> << <<"u1F4BC">>, <<"u1F4B0">>, <<"u1F4C8">>, <<"u1F3E2">> >> ) @@
    ( <<"s","c","i","e","n","c","e">> :> << <<"u1F52C">>, <<"u1F52D">>, <<"u1F9EC">>, <<"u269B","uFE0F">> >> ) @@
    ( <<"c","u","l","t","u","r","e">> :> << <<"u1F3AD">>, <<"u1F3A8">>, <<"u1F3AC">>, <<"u1F3A4">> >> ) @@
    ( <<"p","o","l","i","t","i","c","s">> :> << <<"u1F3DB","uFE0F">>, <<"u1F4DC">>, <<"u1F5F3","uFE0F">>, <<"u2696","uFE0F">> >> ) @@
    ( <<"s","p","o","r","t","s">> :> << <<"u26BD">>, <<"u1F3C0">>, <<"u1F3C8">>, <<"u1F3BE">> >> ) @@
    ( <<"h","e","a","l","t","h">> :> << <<"u1F3E5">>, <<"u1F48A">>, <<"u1F321","uFE0F">>, <<"u2695","uFE0F">> >> ) @@
    ( <<"g","e","n","e","r","a","l">> :> << <<"u1F4F0">>, <<"u1F5DE","uFE0F">>, <<"u1F4CB">>, <<"u1F3AF">> >> )

tone_emojis ==
    [ formal |-> << <<"u1F4CB">>, <<"u1F4D1">>, <<"u2705">> >>,
      friendly |-> << <<"u1F60A">>, <<"u1F44D">>, <<"u1F917">> >>,
      ironic |-> << <<"u1F60F">>, <<"u1F914">>, <<"u1F644">>, <<"u1F605">> >>,
      neutral |-> << <<"u1F539">>, <<"u1F538">>, <<"u25AA","uFE0F">> >> ]

ToneStyles == {"formal", "friendly", "ironic", "neutral"}

\* ToneStyle(tone) if tone is a value of ToneStyle, else ToneStyle.NEUTRAL
CoerceTone(tone) == IF tone \in ToneStyles THEN tone ELSE "neutral"

\* _determine_device_type, from the user_agent of platform_info
DetermineDeviceType(user_agent) ==
    TheOnly({
        IF Contains(agent, <<"m","o","b","i","l","e">>) \/ Contains(agent, <<"a","n","d","r","o","i","d">>) \/ Contains(agent, <<"i","p","h","o","n","e">>)
            THEN "mobile"
        ELSE IF Contains(agent, <<"t","a","b","l","e","t">>) THEN "tablet"
        ELSE "desktop"
        : agent \in {SubSeq(Lower(user_agent), 1, Len(user_agent))} })

\* _get_appropriate_emoji
GetAppropriateEmoji(category, tone) ==
    IF tone \in {"neutral", "formal"}
    THEN TheOnly({ IF key \in DOMAIN category_emojis THEN category_emojis[key][1]
                   ELSE category_emojis[<<"g","e","n","e","r","a","l">>][1]
                   : key \in {SubSeq(Lower(category), 1, Len(category))} })
    ELSE tone_emojis[tone][1]

irony_phrases ==
    { <<"(","u043E","u0447","u0435","u0440","u0435","u0434","u043D","u0430","u044F"," ","u0441","u0435","u043D","u0441","u0430","u0446","u0438","u044F",")">>, <<"(","u043D","u0430","u0432","u0435","u0440","u043D","u044F","u043A","u0430",")">>, <<"(","u0432","u043E","u0442"," ","u044D","u0442","u043E"," ","u0434","u0430",")">>, <<"(","u043D","u0435"," ","u0438","u043D","u0430","u0447","u0435"," ","u043A","u0430","u043A",")">> }

\* _apply_tone_style (phrase: what random.choice(irony_phrases) gives)
ApplyToneStyle(content, tone, phrase) ==
    IF tone = "formal" THEN ReplaceChar(ReplaceChar(content, "!", "."), "?", ".")
    ELSE IF tone = "friendly"
        THEN IF \E i \in 1..FRIENDLY_WINDOW : i <= Len(content) /\ content[i] = "!"
             THEN content ELSE content \o <<"!">>
    ELSE IF tone = "ironic" THEN content \o <<" ">> \o phrase
    ELSE content

\* the sentences kept by the loop of _apply_length_optimization: the index of
\* the sentence at which the loop breaks, 0 when it runs to the end
RECURSIVE LengthBefore(_, _)
LengthBefore(sentences, k) ==
    IF k <= 1 THEN 0 ELSE LengthBefore(sentences, k - 1) + Len(sentences[k - 1]) + 1

BreakAt(sentences) ==
    TheOnly({ IF over = {} THEN 0 ELSE SetMin(over)
              : over \in { {k \in 1..Len(sentences) :
                              LengthBefore(sentences, k) + Len(sentences[k]) > MOBILE_SUMMARY_CUT} } })

\* _apply_length_optimization
ApplyLengthOptimization(summary, device_type) ==
    IF device_type = "mobile" /\ Len(summary) > MOBILE_SUMMARY_ABOVE
    THEN TheOnly({
            TheOnly({
                Join([k \in 1..(IF b = 0 THEN Len(sentences) ELSE b) |->
                        IF k = b THEN Strip(sentences[k]) \o <<".",".",".">> ELSE Strip(sentences[k])],
                     <<"."," ">>)
                : b \in {BreakAt(sentences)} })
            : sentences \in {SplitFrom(summary, <<".">>, 1)} })
    ELSE summary

\* " ".join([f"#{tag}" for tag in tags])
TagsStr(tags) == Join([i \in 1..Len(tags) |-> <<"#">> \o tags[i]], <<" ">>)

\* _create_dynamic_buttons
CreateDynamicButtons(tags) ==
    IF tags = <<>> THEN <<>>
    ELSE Join(<< <<"u1F50D"," ","u041F","u043E","u0445","u043E","u0436","u0438","u0435"," ","u043F","u043E"," ","#">> \o tags[1] \o <<":"," ","u0060","/","s","e","a","r","c","h"," ">> \o tags[1] \o <<"u0060">>,
                 <<"u1F516"," ","u0412"," ","u0437","u0430","u043A","u043B","u0430","u0434","u043A","u0438",":"," ","u0060","/","b","o","o","k","m","a","r","k","u0060">>,
                 <<"u1F4E4"," ","u041F","u043E","u0434","u0435","u043B","u0438","u0442","u044C","u0441","u044F",":"," ","u0060","/","s","h","a","r","e","u0060">> >>, <<"\n">>)

\* message_parts
MessageParts(title, summary, category, tags, url, tone) ==
    << GetAppropriateEmoji(category, tone) \o <<" ","*","*">> \o Title(category) \o <<"*","*">>,
       <<>>,
       <<"*","*">> \o title \o <<"*","*">>,
       <<>>,
       summary >>
    \o (IF tags # <<>> THEN << <<>>, TagsStr(tags) >> ELSE <<>>)
    \o << <<>>, <<"u1F310"," ","[","u0427","u0438","u0442","u0430","u0442","u044C"," ","u043E","u0440","u0438","u0433","u0438","u043D","u0430","u043B","]","(">> \o url \o <<")">> >>

\* _format_for_platform
FormatForPlatform(content, format_type) ==
    IF format_type = "plain_text"
    THEN TheOnly({
            TheOnly({ ReSub(no_italic, <<"#">>, <<" ">>, <<"[">>, <<"]"," ">>)
                      : no_italic \in {ReSub(no_bold, <<"*">>, <<"*">>, <<>>, <<>>)} })
            : no_bold \in {ReSub(content, <<"*","*">>, <<"*","*">>, <<>>, <<>>)} })
    ELSE IF format_type = "html"
    THEN TheOnly({
            TheOnly({ Join(lines, <<"<","b","r",">">>)
                      : lines \in { SplitFrom(italic, <<"\n">>, 1)
                                    : italic \in {ReSub(bold, <<"*">>, <<"*">>, <<"<","e","m",">">>, <<"<","/","e","m",">">>)} } })
            : bold \in {ReSub(content, <<"*","*">>, <<"*","*">>, <<"<","s","t","r","o","n","g",">">>, <<"<","/","s","t","r","o","n","g",">">>)} })
    ELSE IF format_type = "telegram"
    THEN IF Len(content) > max_length THEN Take(content, TELEGRAM_CUT) \o CONTINUED ELSE content
    ELSE content

\* the loop of _optimize_for_telegram_limits from paragraph k on: the messages
\* and the current message at its end
RECURSIVE PackParagraphs(_, _, _, _)
PackParagraphs(paragraphs, k, messages, current_message) ==
    IF k > Len(paragraphs) THEN <<messages, current_message>>
    ELSE TheOnly({ PackParagraphs(paragraphs, k + 1, next[1], next[2])
                   : next \in {
                        IF Len(current_message) + Len(paragraphs[k]) <= max_length
                        THEN <<messages, current_message \o paragraphs[k] \o <<"\n","\n">>>>
                        ELSE <<IF current_message # <<>>
                               THEN Append(messages, Strip(current_message)) ELSE messages,
                               paragraphs[k] \o <<"\n","\n">>>> } })

\* _optimize_for_telegram_limits
OptimizeForTelegramLimits(content) ==
    IF Len(content) <= max_length THEN <<content>>
    ELSE TheOnly({
            IF Strip(packed[2]) # <<>> THEN Append(packed[1], Strip(packed[2])) ELSE packed[1]
            : packed \in { PackParagraphs(paragraphs, 1, <<>>, <<>>)
                           : paragraphs \in {SplitFrom(content, <<"\n","\n">>, 1)} } })

\* the articles handed to the agent
RENDER_TITLE == <<"C","h","i","p"," ","*","s","a","l","e","s","*"," ","r","i","s","e">>

RENDER_CATEGORY == <<"t","e","c","h","n","o","l","o","g","y">>

RENDER_URL == <<"h","t","t","p","s",":","/","/","a",".","e","x","a","m","p","l","e","/","1">>

SUMMARY_SHORT == <<"C","h","i","p"," ","m","a","k","e","r","s"," ","r","e","p","o","r","t"," ","r","e","c","o","r","d"," ","s","a","l","e","s","."," ","I","s"," ","d","e","m","a","n","d"," ","s","t","r","o","n","g","?"," ","Y","e","s","!">>

SUMMARY_SENTENCES ==
    Join([i \in 1..9 |-> <<"C","h","i","p"," ","s","a","l","e","s"," ","r","o","s","e"," ","a","g","a","i","n"," ","t","h","i","s"," ","q","u","a","r","t","e","r">>], <<"."," ">>) \o <<".">>

LongParagraph == 5000

RenderSummaries ==
    { SUMMARY_SHORT,
      SUMMARY_SENTENCES,
      Filler(LongParagraph),
      Filler(LongParagraph \div 2) \o <<"\n","\n">> \o Filler(LongParagraph \div 2) }

RenderTags == { <<>>, << <<"a","i">>, <<"c","h","i","p","s">> >> }

\* user_preferences: no format, or one of the values of OutputFormat
FormatPreferences == {"none", "markdown", "plain_text", "html"}

\* OutputFormat(user_prefs.get("format", "telegram"))
OutputFormatOf(preference) == IF preference = "none" THEN "telegram" ELSE preference

\* the tone of the call, with what random.choice gives when the tone is ironic
ToneChoices ==
    { [tone |-> tone, phrase |-> <<>>] : tone \in {"neutral", "formal", "friendly", "sarcastic"} }
        \cup { [tone |-> "ironic", phrase |-> phrase] : phrase \in irony_phrases }

UserAgents == { <<>>, <<"M","o","z","i","l","l","a","/","5",".","0"," ","(","i","P","h","o","n","e",")">> }

\* the calls made: every summary in every format, in every tone without tags
\* on a desktop, and in the neutral tone with and without tags on both devices
RenderRequests ==
    {r \in [summary : RenderSummaries, tags : RenderTags, preference : FormatPreferences,
            choice : ToneChoices, user_agent : UserAgents] :
        \/ r.tags = <<>> /\ r.user_agent = <<>>
        \/ r.choice.tone = "neutral"}

NoRenderMetrics == [total_renders |-> 0, format_conversions |-> 0, tone_applications |-> 0]

\* render_news_with_enhancements, and run up to its return statement
RenderCall(summary, tags, preference, choice, user_agent) ==
    /\ rd_pc = "idle"
    /\ render_metrics.total_renders < MaxRenders
    /\ render_metrics' = [total_renders |-> render_metrics.total_renders + 1,
                          format_conversions |-> render_metrics.format_conversions + 1,
                          tone_applications |-> render_metrics.tone_applications + 1]
    /\ \E device_type \in {DetermineDeviceType(user_agent)}, tone \in {CoerceTone(choice.tone)} :
       \E message_parts \in {MessageParts(RENDER_TITLE,
                                          ApplyLengthOptimization(summary, device_type),
                                          RENDER_CATEGORY, tags, RENDER_URL, tone)} :
       \E joined \in {Join(message_parts, <<"\n">>)} :
       \E content_with_tone \in {ApplyToneStyle(joined, tone, choice.phrase)} :
       \E buttons \in {CreateDynamicButtons(tags)} :
            rd_assembled' = IF buttons # <<>> THEN content_with_tone \o <<"\n","\n">> \o buttons
                            ELSE content_with_tone
    /\ rd_format' = OutputFormatOf(preference)
    /\ rd_formatted' = FormatForPlatform(rd_assembled', rd_format')
    /\ rd_messages' = OptimizeForTelegramLimits(rd_formatted')
    /\ rd_returned' = IF rd_messages' # <<>> THEN rd_messages'[1] ELSE <<>>
    /\ rd_pc' = "rendered"
    /\ UNCHANGED nonRenderVars

\* run returns: the locals of the call end
RenderReturn ==
    /\ rd_pc = "rendered"
    /\ rd_pc' = "idle"
    /\ rd_format' = "telegram"
    /\ rd_assembled' = <<>>
    /\ rd_formatted' = <<>>
    /\ rd_messages' = <<>>
    /\ rd_returned' = <<>>
    /\ UNCHANGED <<render_metrics, nonRenderVars>>

InitRender ==
    /\ rd_pc = "idle"
    /\ rd_format = "telegram"
    /\ rd_assembled = <<>>
    /\ rd_formatted = <<>>
    /\ rd_messages = <<>>
    /\ rd_returned = <<>>
    /\ render_metrics = NoRenderMetrics

\* ---------------------------------------------------------------------------
\* Properties of the render agent
\* ---------------------------------------------------------------------------

\* the characters of a text that are not whitespace, in order
NonWhitespace(s) == SelectSeq(s, LAMBDA c : ~IsSpace(c))

\* C8: when the assembled message is longer than 4096 characters, at least 2
\* chunks are returned and every chunk has at most 4096 characters
C8_ChunksWithinLimit ==
    (rd_pc = "rendered" /\ Len(rd_assembled) > 4096) =>
        /\ Len(rd_messages) >= 2
        /\ \A i \in 1..Len(rd_messages) : Len(rd_messages[i]) <= 4096

\* C9: when the assembled message is longer than 4096 characters, the chunks in
\* order hold every non-whitespace character of it, and run delivers all of them
C9_NothingIsLost ==
    (rd_pc = "rendered" /\ Len(rd_assembled) > 4096) =>
        /\ NonWhitespace(Flatten(rd_messages)) = NonWhitespace(rd_assembled)
        /\ NonWhitespace(rd_returned) = NonWhitespace(Flatten(rd_messages))

----------------------------------------------------------------------------
(* Further claims about the PersonalizationAgent, checked under            *)
(* SpecRecommend.                                                          *)

\* the step in which caller c begins an is_relevant evaluation (a call with a
\* non-empty tag list) for a user whose interests are already cached
EvaluationBegins(c) ==
    /\ r_pc[c] = "idle"
    /\ r_pc'[c] # "idle"
    /\ r_tags'[c] # <<>>
    /\ r_user'[c] \in interests_loaded

\* C21: an is_relevant evaluation for a user multiplies every stored interest
\* weight of the user by the decay factor exactly once and deletes exactly the
\* interests whose decayed weight is below the floor: up to its first await or
\* its return without reinforcement, the cached dict is the decay of the dict
\* cached before.
C21_DecayOncePerEvaluation ==
    [][\A c \in Evaluators :
        (EvaluationBegins(c) /\ ~r_reinforced'[c]) =>
            user_interests'[r_user'[c]] = Decay(user_interests[r_user'[c]])]_vars

\* the step in which caller c begins an evaluation that takes the
\* established-profile path for content without a blocked tag
EstablishedEvaluationBegins(c) ==
    /\ r_pc[c] = "idle"
    /\ r_pc'[c] # "idle"
    /\ r_branch'[c] \in {"established", "explored"}
    /\ ~r_blocked'[c]

\* the content scores the decayed interests give to the tags, over the times of day
ContentScoresOf(interests, tags) ==
    {CalculateContentScore(ApplyTimeContext(interests, tc), tags) : tc \in TimeContexts}

\* C22: for a user with an established profile and content without a blocked
\* tag, the content score is 0.6 * average + 0.4 * maximum of the tag weights and
\* the final score is 0.7 * content + 0.3 * diversity; the content is accepted
\* exactly when the final score is at least 0.3 and, if the content score is
\* above 0.2, the LLM confirmation agrees; at a content score of at most 0.2 the
\* call returns without an LLM call.
C22_EstablishedDecisionRule ==
    [][\A c \in Evaluators :
        /\ EstablishedEvaluationBegins(c) =>
            LET content_score == r_content_score'[c]
                final_score == FinalScore(content_score, r_tags'[c])
            IN  /\ ~r_reinforced'[c] =>
                    content_score \in ContentScoresOf(user_interests'[r_user'[c]], r_tags'[c])
                /\ r_llm_calls'[c] = 0
                /\ IF final_score >= threshold /\ content_score > 200000
                   THEN r_pc'[c] = "llm"
                   ELSE /\ r_pc'[c] = "done"
                        /\ r_ret'[c] = (final_score >= threshold)
        /\ (r_pc[c] = "llm" /\ r_branch[c] = "established" /\ r_pc'[c] = "done") =>
            /\ r_llm_calls'[c] = 1
            /\ r_ret'[c] = RefineRecommendationWithLLM(call_llm(r_outcome'[c]))]_vars

\* C23: an evaluation that _should_explore selects never rejects content that
\* an evaluation it does not select would accept in the same state: where the
\* exploration step returns False, the content has a blocked tag, or a final
\* score below the threshold, or a content score that needs the LLM.
C23_ExplorationNeverNarrows ==
    [][\A c \in Evaluators :
        (r_pc[c] = "idle" /\ r_pc'[c] = "done" /\ r_branch'[c] = "explored") =>
            \/ r_blocked'[c]
            \/ FinalScore(r_content_score'[c], r_tags'[c]) < threshold
            \/ r_content_score'[c] > 200000]_vars

\* every weight of the cached interests is within [0, 1]
WeightsInRange(interests) ==
    \A u \in Users : \A t \in ProfileTags :
        interests[u][t] = ABSENT \/ (0 <= interests[u][t] /\ interests[u][t] <= WEIGHT_ONE)

\* C24: every acceptance by is_relevant, other than for a user whose preferred
\* tags are the sentinel alone, raises the weight of each content tag by the
\* fixed increment (capped at 1.0) and persists the keys of the updated interests
\* as the preferred tags of the user; every interest weight stays within [0, 1].
C24_AcceptanceReinforces ==
    [][/\ WeightsInRange(user_interests')
       /\ \A c \in Evaluators :
            (/\ r_pc[c] # "done"
             /\ r_pc'[c] = "done"
             /\ r_ret'[c] = TRUE
             /\ r_profile'[c].preferred_tags # {ALL_TAG}) =>
                LET user_id == r_user'[c]
                    before ==
                        IF r_pc[c] = "llm" THEN user_interests[user_id]
                        ELSE Decay(LoadUserInterests(db_users, user_interests,
                                                     interests_loaded, user_id))
                IN  /\ \A i \in 1..Len(r_tags'[c]) :
                          user_interests'[user_id][r_tags'[c][i]] =
                              MinOf(WEIGHT_ONE,
                                    WeightOf(before, r_tags'[c][i]) + REINFORCEMENT)
                    /\ db_users'[user_id].preferred_tags =
                          InterestKeys(user_interests'[user_id])]_vars

\* C24 witness: content with two tags was accepted for a user with specific
\* preferred tags, both tags are interests and the interests are persisted
C24_Witness ==
    \E c \in Evaluators :
        /\ r_pc[c] = "done"
        /\ r_ret[c] = TRUE
        /\ r_reinforced[c]
        /\ Len(r_tags[c]) = 2
        /\ ALL_TAG \notin r_profile[c].preferred_tags
        /\ \A i \in 1..Len(r_tags[c]) : user_interests[r_user[c]][r_tags[c][i]] # ABSENT
        /\ db_users[r_user[c]].preferred_tags = InterestKeys(user_interests[r_user[c]])

\* C25: the persisted preferred_tags of a user never hold the sentinel together
\* with a specific tag, after any sequence of likes, dislikes and accepted
\* recommendations.
C25_SentinelExclusive ==
    \A u \in Users :
        db_users[u] # NoRow =>
            (ALL_TAG \in db_users[u].preferred_tags =>
                db_users[u].preferred_tags = {ALL_TAG})

\* C29: no tag is in both the persisted preferred_tags and the persisted
\* blocked_tags of a user, after any interleaving of likes, dislikes and
\* is_relevant evaluations; a disliked tag stays in blocked_tags until it is liked
\* again, so it is not a preferred tag until then.
C29_PreferredBlockedDisjoint ==
    \A u \in Users :
        db_users[u] # NoRow =>
            db_users[u].preferred_tags \cap db_users[u].blocked_tags = {}

\* C30: a tag the user has liked and not disliked since is in the persisted
\* preferred_tags of the user, whatever is_relevant evaluations have run before
\* or after the like.
C30_LikesSurviveEvaluations ==
    \A u \in Users : \A t \in liked_tags[u] :
        /\ db_users[u] # NoRow
        /\ t \in db_users[u].preferred_tags

\* ---------------------------------------------------------------------------
\* Properties of the fact check of the summarizer, checked under SpecSummarize
\* ---------------------------------------------------------------------------

\* C26: the fact check is advisory: whatever the verification call answers
\* (valid, invalid, anything else, an error), the call returns the summary it
\* had after the generation call, in the requested format; a call with a
\* non-empty text has made exactly one generation call and one verification call
\* when it returns.
C26_FactCheckIsAdvisory ==
    [][/\ (su_pc = "verifying" /\ su_pc' = "done") =>
            /\ su_returned' = ApplyFormat(su_response, su_format)
            /\ su_calls' = [generation |-> 1, verification |-> 1]
       /\ (su_pc' = "done" /\ Strip(su_text') # <<>>) =>
            su_calls' = [generation |-> 1, verification |-> 1]
       /\ (su_pc' = "verifying") =>
            su_calls' = [generation |-> 1, verification |-> 0]]_vars

\* C26 witness: a generated summary with markup failed the fact check and was
\* returned as html all the same
C26_Witness ==
    /\ su_pc = "done"
    /\ su_format = "html"
    /\ su_calls = [generation |-> 1, verification |-> 1]
    /\ ~su_is_valid
    /\ su_response = <<"*","*","R","a","t","e","s","*","*"," ","r","i","s","e"," ","*","f","a","s","t","*",".","\n","M","o","r","e"," ","s","o","o","n",".">>
    /\ su_returned = <<"<","s","t","r","o","n","g",">","R","a","t","e","s","<","/","s","t","r","o","n","g",">"," ","r","i","s","e"," ","<","e","m",">","f","a","s","t","<","/","e","m",">",".","<","b","r",">","M","o","r","e"," ","s","o","o","n",".">>

\* ---------------------------------------------------------------------------
\* The taxonomy: instances of SemanticTaggingAgent in separate processes, each
\* with its own self.taxonomy, usage counts and cache, and the one file
\* data/tags_taxonomy.json they load at start and dump on every proposal.
\* The directory data/ exists (the prompts of the agents are read from it).
\* The metrics of disambiguation and validation are those of the tagging
\* section above and are left out here.
\* ---------------------------------------------------------------------------

TagAgents == {"a1", "a2"}

MaxTaxonomyCalls == 6

\* the default of the parameter threshold of _check_for_taxonomy_updates
usage_threshold == 5

NoFile == [missing |-> TRUE]

NoTaxonomy == [category \in {} |-> <<>>]

\* the default taxonomy of _load_taxonomy
DefaultTaxonomy ==
    [technology |-> << <<"u0438","u0441","u043A","u0443","u0441","u0441","u0442","u0432","u0435","u043D","u043D","u044B","u0439","_","u0438","u043D","u0442","u0435","u043B","u043B","u0435","u043A","u0442">>, <<"u043C","u0430","u0448","u0438","u043D","u043D","u043E","u0435","_","u043E","u0431","u0443","u0447","u0435","u043D","u0438","u0435">>, <<"u0431","u0438","u0433","_","u0434","u0430","u0442","u0430">>,
                       <<"b","l","o","c","k","c","h","a","i","n">>, <<"c","y","b","e","r","s","e","c","u","r","i","t","y">> >>,
     business |-> << <<"u0441","u0442","u0430","u0440","u0442","u0430","u043F","u044B">>, <<"u0438","u043D","u0432","u0435","u0441","u0442","u0438","u0446","u0438","u0438">>, <<"u0432","u0435","u043D","u0447","u0443","u0440">>, <<"u043C","u0430","u0440","u043A","u0435","u0442","u0438","u043D","u0433">> >>,
     science |-> << <<"u0438","u0441","u0441","u043B","u0435","u0434","u043E","u0432","u0430","u043D","u0438","u044F">>, <<"u043C","u0435","u0434","u0438","u0446","u0438","u043D","u0430">>, <<"u0430","u0441","u0442","u0440","u043E","u043D","u043E","u043C","u0438","u044F">>, <<"u0431","u0438","u043E","u043B","u043E","u0433","u0438","u044F">> >>,
     culture |-> << <<"u0438","u0441","u043A","u0443","u0441","u0441","u0442","u0432","u043E">>, <<"u043C","u0443","u0437","u044B","u043A","u0430">>, <<"u043A","u0438","u043D","u043E">>, <<"u043B","u0438","u0442","u0435","u0440","u0430","u0442","u0443","u0440","u0430">> >>,
     politics |-> << <<"u043F","u043E","u043B","u0438","u0442","u0438","u043A","u0430">>, <<"u0432","u044B","u0431","u043E","u0440","u044B">>, <<"u0433","u043E","u0441","u0443","u0434","u0430","u0440","u0441","u0442","u0432","u043E">>, <<"u043C","u0435","u0436","u0434","u0443","u043D","u0430","u0440","u043E","u0434","u043D","u044B","u0435","_","u043E","u0442","u043D","u043E","u0448","u0435","u043D","u0438","u044F">> >>]

\* _load_taxonomy
LoadTaxonomy(file) == IF file = NoFile THEN DefaultTaxonomy ELSE file

\* a save that keeps what the file proposes beside what the instance proposes
SaveTaxonomy_Merged(file, taxonomy) ==
    IF file = NoFile \/ "proposed" \notin DOMAIN file THEN taxonomy
    ELSE [taxonomy EXCEPT !.proposed =
            @ \o SelectSeq(file.proposed, LAMBDA tag : tag \notin TagSet(taxonomy.proposed))]

\* _save_taxonomy: the file after json.dump of self.taxonomy over it
SaveTaxonomy(file, taxonomy) == taxonomy

\* _get_all_allowed_tags, as a set
GetAllAllowedTags(taxonomy) ==
    UNION { TagSet(taxonomy[category]) : category \in DOMAIN taxonomy }

\* the list under "proposed", empty without the key
ProposedList(taxonomy) ==
    IF "proposed" \in DOMAIN taxonomy THEN taxonomy["proposed"] ELSE <<>>

\* tag_usage_frequency[tag] of the defaultdict
FrequencyOf(frequency, tag) == IF tag \in DOMAIN frequency THEN frequency[tag] ELSE 0

\* reading tag_usage_frequency[tag] enters the tag into the defaultdict
TouchUsage(frequency, tags) ==
    [tag \in DOMAIN frequency \cup tags |-> FrequencyOf(frequency, tag)]

\* _check_for_taxonomy_updates: new_suggestions
CheckForTaxonomyUpdates(suggested_tags, frequency, taxonomy) ==
    TheOnly({ SelectSeq(suggested_tags,
                        LAMBDA tag : /\ FrequencyOf(frequency, tag) >= usage_threshold
                                     /\ tag \notin allowed)
              : allowed \in {GetAllAllowedTags(taxonomy)} })

\* the loop of _update_taxonomy_with_new_tags over new_tags
RECURSIVE AppendProposed(_, _)
AppendProposed(proposed, new_tags) ==
    IF new_tags = <<>> THEN proposed
    ELSE AppendProposed(IF Head(new_tags) \in TagSet(proposed) THEN proposed
                        ELSE Append(proposed, Head(new_tags)),
                        Tail(new_tags))

\* _update_taxonomy_with_new_tags: self.taxonomy afterwards
UpdateTaxonomyWithNewTags(taxonomy, new_tags) ==
    IF new_tags = <<>> THEN taxonomy
    ELSE [category \in DOMAIN taxonomy \cup {"proposed"} |->
            IF category = "proposed"
            THEN AppendProposed(ProposedList(taxonomy), new_tags)
            ELSE taxonomy[category]]

\* the summaries of the feed: five short articles on one subject
TaxonomySummaries ==
    << <<"u0441","u0442","u0430","u0440","u0442","u0430","u043F"," ","d","a","t","a"," ","u0431","u0438","u0437","u043D","u0435","u0441"," ","1">>, <<"u0441","u0442","u0430","u0440","u0442","u0430","u043F"," ","d","a","t","a"," ","u0431","u0438","u0437","u043D","u0435","u0441"," ","2">>, <<"u0441","u0442","u0430","u0440","u0442","u0430","u043F"," ","d","a","t","a"," ","u0431","u0438","u0437","u043D","u0435","u0441"," ","3">>,
       <<"u0441","u0442","u0430","u0440","u0442","u0430","u043F"," ","d","a","t","a"," ","u0431","u0438","u0437","u043D","u0435","u0441"," ","4">>, <<"u0441","u0442","u0430","u0440","u0442","u0430","u043F"," ","d","a","t","a"," ","u0431","u0438","u0437","u043D","u0435","u0441"," ","5">> >>

\* the requests an instance is given, in the order of its feed: summary and
\* user tags
TaxonomyRequests == [n \in 1..Len(TaxonomySummaries) |-> <<TaxonomySummaries[n], <<>> >>]

\* what call_llm answers
TaxonomyOutcomes ==
    { [kind |-> "error", category |-> "none", tags |-> <<>>],
      [kind |-> "record", category |-> "business", tags |-> << <<"u0421","u0442","u0430","u0440","u0442","u0430","u043F">>, <<"u0441","u0442","u0430","u0440","u0442","u0430","u043F">> >>],
      [kind |-> "record", category |-> "technology", tags |-> << <<"D","a","t","a">> >>] }

NoTaxonomyMetrics == [total_taggings |-> 0, taxonomy_expansions |-> 0]

\* SemanticTaggingAgent.__init__ in a new process
TaxonomyStart(a) ==
    /\ ~tx_started[a]
    /\ tx_started' = [tx_started EXCEPT ![a] = TRUE]
    /\ tx_taxonomy' = [tx_taxonomy EXCEPT ![a] = LoadTaxonomy(tx_file)]
    /\ UNCHANGED <<tx_file, tx_frequency, tx_cache, tx_metrics, tx_pc, tx_request, tx_updates>>
    /\ UNCHANGED nonTaxonomyVars

\* generate_tags_with_enhancements up to the await of call_llm, for request n
\* of the feed: the next one, or one tagged before (a cache hit)
TaxonomyCall(a, n) ==
    /\ tx_started[a]
    /\ tx_pc[a] = "idle"
    /\ n \in 1..Len(TaxonomyRequests)
    /\ n <= Cardinality(tx_cache[a]) + 1
    /\ tx_metrics[a].total_taggings < MaxTaxonomyCalls
    /\ tx_metrics' = [tx_metrics EXCEPT ![a].total_taggings = @ + 1]
    /\ IF TaxonomyRequests[n] \in tx_cache[a]
       THEN UNCHANGED <<tx_pc, tx_request>>
       ELSE /\ tx_pc' = [tx_pc EXCEPT ![a] = "asked"]
            /\ tx_request' = [tx_request EXCEPT ![a] = n]
    /\ UNCHANGED <<tx_file, tx_started, tx_taxonomy, tx_frequency, tx_cache, tx_updates>>
    /\ UNCHANGED nonTaxonomyVars

\* the call returns its result
TaxonomyDone(a, taxonomy_updates) ==
    /\ tx_cache' = [tx_cache EXCEPT ![a] = @ \cup {TaxonomyRequests[tx_request[a]]}]
    /\ tx_updates' = [tx_updates EXCEPT ![a] = taxonomy_updates]
    /\ tx_pc' = [tx_pc EXCEPT ![a] = "idle"]
    /\ tx_request' = [tx_request EXCEPT ![a] = 0]

\* ... from the response of call_llm on, without a record in the response
TaxonomyNoRecord(a, outcome) ==
    /\ tx_pc[a] = "asked"
    /\ outcome.kind # "record"
    /\ TaxonomyDone(a, <<>>)
    /\ UNCHANGED <<tx_file, tx_started, tx_taxonomy, tx_frequency, tx_metrics>>
    /\ UNCHANGED nonTaxonomyVars

\* lines 260-279 of generate_tags_with_enhancements for a request and a record:
\* the normalized tags, and the validated tags after disambiguation and
\* parent tags
TagsOfRecord(request, outcome) ==
    TheOnly({ [normalized_tags |-> normalized_tags,
               validated_tags |-> ValidateViaEmbeddings(request[1],
                                      ListOfSet(AddParentTags(
                                          [i \in 1..Len(normalized_tags) |->
                                              ContextualDisambiguation(normalized_tags[i],
                                                                       request[1])]), 0))]
              : normalized_tags \in {NormalizeAndLimitTags(outcome.tags \o request[2])} })

\* TagsOfRecord of the requests of the feed and the records of the LLM
TaxonomyTagging ==
    [n \in 1..Len(TaxonomyRequests) |->
        [outcome \in {o \in TaxonomyOutcomes : o.kind = "record"} |->
            TagsOfRecord(TaxonomyRequests[n], outcome)]]

\* ... with a record: the usage of the validated tags is counted, the
\* normalized tags are checked against the threshold, the new ones are appended
\* to "proposed" and the taxonomy is dumped into the file
TaxonomyRecord(a, outcome) ==
    /\ tx_pc[a] = "asked"
    /\ outcome.kind = "record"
    /\ \E tagging \in {TaxonomyTagging[tx_request[a]][outcome]} :
       \E counted \in {CountUsage(tx_frequency[a], TagSet(tagging.validated_tags))} :
       \E new_taxonomy_suggestions \in {CheckForTaxonomyUpdates(tagging.normalized_tags,
                                                                 counted, tx_taxonomy[a])} :
            /\ tx_frequency' = [tx_frequency EXCEPT ![a] =
                                    TouchUsage(counted, TagSet(tagging.normalized_tags))]
            /\ tx_taxonomy' = [tx_taxonomy EXCEPT ![a] =
                                    UpdateTaxonomyWithNewTags(@, new_taxonomy_suggestions)]
            /\ tx_metrics' = [tx_metrics EXCEPT ![a].taxonomy_expansions =
                                    @ + Len(ProposedList(tx_taxonomy'[a]))
                                      - Len(ProposedList(tx_taxonomy[a]))]
            /\ tx_file' = IF new_taxonomy_suggestions = <<>> THEN tx_file
                          ELSE SaveTaxonomy(tx_file, tx_taxonomy'[a])
            /\ TaxonomyDone(a, new_taxonomy_suggestions)
    /\ UNCHANGED tx_started
    /\ UNCHANGED nonTaxonomyVars

InitTaxonomy ==
    /\ tx_file = NoFile
    /\ tx_started = [a \in TagAgents |-> FALSE]
    /\ tx_taxonomy = [a \in TagAgents |-> NoTaxonomy]
    /\ tx_frequency = [a \in TagAgents |-> NoFrequency]
    /\ tx_cache = [a \in TagAgents |-> {}]
    /\ tx_metrics = [a \in TagAgents |-> NoTaxonomyMetrics]
    /\ tx_pc = [a \in TagAgents |-> "idle"]
    /\ tx_request = [a \in TagAgents |-> 0]
    /\ tx_updates = [a \in TagAgents |-> <<>>]

\* the tags an instance has under "proposed"
ProposedTags(taxonomy) == TagSet(ProposedList(taxonomy))

\* C27: taxonomy lost update. Two instances that each hold a proposed tag the
\* other does not hold (each read the file before the other wrote, and each
\* appended and rewrote it) leave a file that lacks a proposed tag one of them
\* has written: the later writer's dump replaces the earlier one's.
C27_LostUpdate ==
    \A a \in TagAgents : \A b \in TagAgents \ {a} :
        ( /\ ProposedTags(tx_taxonomy[a]) \ ProposedTags(tx_taxonomy[b]) # {}
          /\ ProposedTags(tx_taxonomy[b]) \ ProposedTags(tx_taxonomy[a]) # {} )
        => /\ tx_file \in {tx_taxonomy[a], tx_taxonomy[b]}
           /\ \E c \in {a, b} : ProposedTags(tx_taxonomy[c]) \ ProposedTags(tx_file) # {}

\* both instances have written a proposal, and the file lacks the tag a1 wrote
\* and holds "data", which a2 wrote after it
C27_Witness ==
    /\ tx_metrics["a1"].taxonomy_expansions > 0
    /\ tx_metrics["a2"].taxonomy_expansions > 0
    /\ <<"u0441","u0442","u0430","u0440","u0442","u0430","u043F">> \in ProposedTags(tx_taxonomy["a1"])
    /\ <<"u0441","u0442","u0430","u0440","u0442","u0430","u043F">> \notin ProposedTags(tx_file)
    /\ <<"d","a","t","a">> \in ProposedTags(tx_file)

\* no tag twice in a list
NoDuplicates(tags) == \A i \in 1..Len(tags) : \A j \in 1..Len(tags) : tags[i] = tags[j] => i = j

\* C28: taxonomy proposals. In every tagging call of an instance, a tag that is
\* appended to "proposed" was outside the taxonomy and has a usage count of at
\* least 5, every tag outside the taxonomy whose usage count reaches 5 in the
\* call is appended, and no tag is in "proposed" twice.
C28_ProposalsFollowUsage ==
    [][\A a \in TagAgents :
        (tx_started[a] /\ tx_pc[a] = "asked" /\ tx_pc'[a] = "idle") =>
            /\ \A i \in (Len(ProposedList(tx_taxonomy[a])) + 1)..Len(ProposedList(tx_taxonomy'[a])) :
                    /\ ProposedList(tx_taxonomy'[a])[i] \notin GetAllAllowedTags(tx_taxonomy[a])
                    /\ FrequencyOf(tx_frequency'[a], ProposedList(tx_taxonomy'[a])[i]) >= usage_threshold
            /\ \A tag \in DOMAIN tx_frequency'[a] :
                    ( /\ FrequencyOf(tx_frequency[a], tag) < usage_threshold
                      /\ tx_frequency'[a][tag] >= usage_threshold
                      /\ tag \notin GetAllAllowedTags(tx_taxonomy[a]) )
                    => tag \in ProposedTags(tx_taxonomy'[a])
            /\ NoDuplicates(ProposedList(tx_taxonomy'[a]))]_vars

\* the two halves of C28 that hold of every call: what is appended was outside
\* the taxonomy with a count of at least 5, and nothing is proposed twice
ProposalsAreEarned ==
    [][\A a \in TagAgents :
        (tx_started[a] /\ tx_pc[a] = "asked" /\ tx_pc'[a] = "idle") =>
            /\ \A i \in (Len(ProposedList(tx_taxonomy[a])) + 1)..Len(ProposedList(tx_taxonomy'[a])) :
                    /\ ProposedList(tx_taxonomy'[a])[i] \notin GetAllAllowedTags(tx_taxonomy[a])
                    /\ FrequencyOf(tx_frequency'[a], ProposedList(tx_taxonomy'[a])[i]) >= usage_threshold
            /\ NoDuplicates(ProposedList(tx_taxonomy'[a]))]_vars

Init == InitParser /\ InitRecommend /\ InitPipeline /\ InitExtract /\ InitSummarize /\ InitTags /\ InitRender /\ InitTaxonomy

NextParser ==
    \/ \E c \in Callers, text \in Texts, url \in URLS : ParseCall(c, text, url)
    \/ \E c \in Callers, llm_result \in ParserLLMOutcomes : ParseLLMReturn(c, llm_result)
    \/ \E c \in Callers : ParseWake(c)
    \/ \E c \in Callers : ParseReturn(c)

SpecParser == Init /\ [][NextParser]_vars

NextRecommend ==
    \/ \E u \in Users, tag \in ArticleTags, action \in {"like", "dislike"} :
            UpdateUserTags(u, tag, action)
    \/ \E c \in Evaluators, u \in Users, tags \in ContentTagLists, tc \in TimeContexts :
            IsRelevantCall(c, u, tags, tc, MaxEvals)
    \/ \E c \in Evaluators, outcome \in RecommendLLMOutcomes : IsRelevantLLMReturn(c, outcome)
    \/ \E c \in Evaluators : IsRelevantReturn(c)

SpecRecommend == Init /\ [][NextRecommend]_vars

\* evaluations of an established profile, up to the first one that
\* _should_explore selects: the user likes tags, the articles carry a tag of
\* the profile or a tag outside it, and the LLM answers
NextExplore ==
    \/ \E u \in Users, tag \in ArticleTags : UpdateUserTags(u, tag, "like")
    \/ \E c \in Evaluators, u \in Users, tags \in ExploreTagLists :
            IsRelevantCall(c, u, tags, "night", MaxExploreEvals)
    \/ \E c \in Evaluators, outcome \in {LLM_YES, LLM_NO} : IsRelevantLLMReturn(c, outcome)
    \/ \E c \in Evaluators : IsRelevantReturn(c)

SpecExplore == Init /\ [][NextExplore]_vars

NextPipeline ==
    \/ \E h \in Handlers, u \in Users, style \in Styles : DigestStart(h, u, style)
    \/ \E h \in Handlers, fetched \in BOOLEAN, raw_news_list \in RawNewsLists :
            DigestFetched(h, fetched, raw_news_list)
    \/ \E h \in Handlers : DigestAnswered(h)
    \/ \E h \in Handlers : DigestReturn(h)

SpecPipeline == Init /\ [][NextPipeline]_vars

NextExtract ==
    \/ \E prefix \in ResponsePrefixes, body \in ResponseBodies, suffix \in ResponseSuffixes :
            ExtractCall(prefix, body, suffix)
    \/ ExtractError
    \/ ExtractTaken

SpecExtract == Init /\ [][NextExtract]_vars

NextSummarize ==
    \/ \E request \in SummaryRequests :
            SummarizeCall(request[1], request[2], request[3], request[4])
    \/ \E text \in {<<>>, <<" "," ">>} : SummarizeEmpty(text)
    \/ \E outcome \in GenerationOutcomes : SummarizeGenerated(outcome)
    \/ \E outcome \in VerificationOutcomes : SummarizeVerified(outcome)
    \/ SummarizeReturn

SpecSummarize == Init /\ [][NextSummarize]_vars

NextTaxonomy ==
    \/ \E a \in TagAgents : TaxonomyStart(a)
    \/ \E a \in TagAgents, n \in 1..Len(TaxonomyRequests) : TaxonomyCall(a, n)
    \/ \E a \in TagAgents, outcome \in TaxonomyOutcomes : TaxonomyNoRecord(a, outcome)
    \/ \E a \in TagAgents, outcome \in TaxonomyOutcomes : TaxonomyRecord(a, outcome)

SpecTaxonomy == Init /\ [][NextTaxonomy]_vars

NextTags ==
    \/ \E summary \in TagSummaries, user_tags \in UserTagLists : TagCall(summary, user_tags)
    \/ \E outcome \in TagOutcomes : TagLLMError(outcome)
    \/ \E outcome \in TagOutcomes : TagLLMUnparsable(outcome)
    \/ \E outcome \in TagOutcomes, k \in 0..(ListOrders - 1) : TagLLMRecord(outcome, k)
    \/ TagReturn

SpecTags == Init /\ [][NextTags]_vars

NextRender ==
    \/ \E r \in RenderRequests :
            RenderCall(r.summary, r.tags, r.preference, r.choice, r.user_agent)
    \/ RenderReturn

SpecRender == Init /\ [][NextRender]_vars

====
